---- MODULE Spec2Model ----
(***************************************************************************)
(* Model of the pi-undo-redo extension: the snapshot tracker (tracker.ts), *)
(* the blob/manifest cache (cache.ts), the buffered tools (tools.ts) and   *)
(* the session handlers of index.ts.                                       *)
(*                                                                         *)
(* Files are modelled by their content: a buffer is a number 1..NumContents*)
(* (the text buffer of that many bytes), Absent is "no file at the path"   *)
(* (ENOENT).  A manifest is a function whose domain is its set of keys, as *)
(* the Map<string, FileState> of the source.  A handler is one atomic      *)
(* step: the host awaits every handler and the program is single-threaded. *)
(* An I/O error is an input of the step (the fail point fp).               *)
(***************************************************************************)
EXTENDS Integers, Sequences, FiniteSets, TLC

NumPaths == 1
NumContents == 2
MaxLeaves == 2
MaxStack == 1
MaxFaults == 1
NumDiffPaths == 2
NumStats == 2
NumRoots == 2
SourceFile == 1
IgnoredFile == 2
META_FILENAME == 3

Paths == 1..NumPaths
Buffers == 1..NumContents
Absent == 0
Null == 0
Leaves == 1..MaxLeaves
DiffPaths == 1..NumDiffPaths
SANDBOX == "sandbox"
REAL == "real"

VARIABLES
  real,             \* files of the real working directory: path -> buffer or Absent
  sandbox,          \* files of the sandbox mirror
  blobs,            \* cache.blobsDir: hash -> buffer
  baseFile,         \* cache.basePath: <<>> (no file) or <<manifest>>
  leafFiles,        \* cache.leavesDir: leaf id -> manifest
  baseManifest,     \* SnapshotTracker.baseManifest
  trackedManifest,  \* SnapshotTracker.trackedManifest
  leafCache,        \* SnapshotTracker.leafCache
  stats,            \* SandboxState.stats, relative to the sandbox files
  initialized,      \* index.ts: state !== undefined
  currentLeafId,    \* SessionState.currentLeafId
  undoStack,        \* SessionState.undoStack
  redoStack,        \* SessionState.redoStack
  navigating,       \* SessionState.navigating
  hostLeaf,         \* ctx.sessionManager.getLeafId()
  nextLeaf,         \* number of entry ids the host has handed out
  last,             \* history: the step just taken and its outcome
  pre,              \* history: values at the start of the step just taken
  faults,           \* number of steps so far with an injected I/O error
  emittedStats,     \* the stats the tracker last passed to its onStats callback
  sandboxState,     \* the SandboxState: its realRoot and ignoreMatcher once initialized
  calls,            \* the calls of the tracker's async methods taken one await
                    \* at a time: their arguments, local variables and stage
  input,            \* the arguments of a function called on its own
  output            \* what that call returned

vars == <<real, sandbox, blobs, baseFile, leafFiles, baseManifest, trackedManifest,
          leafCache, stats, initialized, currentLeafId, undoStack, redoStack,
          navigating, hostLeaf, nextLeaf, last, pre, faults, emittedStats,
          sandboxState, calls, input, output>>

----------------------------------------------------------------------------
(* Manifests (types.ts) *)

EmptyManifest == [p \in {} |-> [exists |-> FALSE]]

ManifestSet(m, p, e) == [q \in (DOMAIN m) \cup {p} |-> IF q = p THEN e ELSE m[q]]

\* Overlay with the precedence reversed: an entry of under is kept
OverlayKeepsUnder(under, over) ==
  [q \in (DOMAIN under) \cup (DOMAIN over) |-> IF q \in DOMAIN under THEN under[q] ELSE over[q]]

\* for (const [k, v] of over) under.set(k, v)
Overlay(under, over) ==
  [q \in (DOMAIN under) \cup (DOMAIN over) |-> IF q \in DOMAIN over THEN over[q] ELSE under[q]]

----------------------------------------------------------------------------
(* cache.ts and the snapshot helpers of tracker.ts *)

hashBuffer(buffer) == <<"sha256", buffer>>

Size(buffer) == buffer

isBinaryBuffer(buffer) == FALSE

\* readSnapshot with a digest of the path and the bytes
readSnapshotHashesPath(files, p) ==
  IF files[p] = Absent
  THEN [exists |-> FALSE]
  ELSE [exists |-> TRUE, buffer |-> files[p], hash |-> <<"sha256", p, files[p]>>,
        size |-> Size(files[p]), binary |-> isBinaryBuffer(files[p])]

readSnapshot(files, p) ==
  IF files[p] = Absent
  THEN [exists |-> FALSE]
  ELSE [exists |-> TRUE, buffer |-> files[p], hash |-> hashBuffer(files[p]),
        size |-> Size(files[p]), binary |-> isBinaryBuffer(files[p])]

writeBlob(store, hash, buffer) ==
  IF hash \in DOMAIN store THEN store
  ELSE [h \in (DOMAIN store) \cup {hash} |-> IF h = hash THEN buffer ELSE store[h]]

\* the FileState returned by writeSnapshotToCache
SnapshotEntry(snapshot) ==
  IF ~snapshot.exists THEN [exists |-> FALSE]
  ELSE [exists |-> TRUE, hash |-> snapshot.hash, size |-> snapshot.size,
        binary |-> snapshot.binary]

\* writeSnapshotToCache without the call of cache.writeBlob
writeSnapshotToCacheSkipsBlob(store, snapshot) == store

\* the blob store after writeSnapshotToCache
writeSnapshotToCache(store, snapshot) ==
  IF ~snapshot.exists THEN store
  ELSE writeBlob(store, snapshot.hash, snapshot.buffer)

----------------------------------------------------------------------------
(* The world a handler works on: the variables it can read and write, and  *)
(* err, the error thrown so far ("none": no error).  Every operation on a  *)
(* world is skipped when an error is pending: the exception propagates.    *)

World ==
  [real |-> real, sandbox |-> sandbox, blobs |-> blobs, baseFile |-> baseFile,
   leafFiles |-> leafFiles, baseManifest |-> baseManifest,
   trackedManifest |-> trackedManifest, leafCache |-> leafCache,
   stats |-> stats, initialized |-> initialized, currentLeafId |-> currentLeafId,
   undoStack |-> undoStack, redoStack |-> redoStack, navigating |-> navigating,
   hostLeaf |-> hostLeaf, nextLeaf |-> nextLeaf, emittedStats |-> emittedStats,
   err |-> "none"]

SetWorld(w) ==
  /\ real' = w.real
  /\ sandbox' = w.sandbox
  /\ blobs' = w.blobs
  /\ baseFile' = w.baseFile
  /\ leafFiles' = w.leafFiles
  /\ baseManifest' = w.baseManifest
  /\ trackedManifest' = w.trackedManifest
  /\ leafCache' = w.leafCache
  /\ stats' = w.stats
  /\ initialized' = w.initialized
  /\ currentLeafId' = w.currentLeafId
  /\ undoStack' = w.undoStack
  /\ redoStack' = w.redoStack
  /\ navigating' = w.navigating
  /\ hostLeaf' = w.hostLeaf
  /\ nextLeaf' = w.nextLeaf
  /\ emittedStats' = w.emittedStats

Files(w, root) == IF root = REAL THEN w.real ELSE w.sandbox

WithFile(w, root, p, c) ==
  IF root = REAL THEN [w EXCEPT !.real[p] = c]
  ELSE [w EXCEPT !.sandbox[p] = c,
                 !.stats[p] = IF w.stats[p] = "none" THEN "none" ELSE "diff"]

Throw(w, e) == [w EXCEPT !.err = e]

NoFail == [op |-> "none", path |-> 0, n |-> 0]

\* no SandboxState was initialized
NoSandboxState == [initialized |-> FALSE]

----------------------------------------------------------------------------
(* SnapshotTracker (tracker.ts) *)

\* nothing was passed to onStats yet
NoStats == [emitted |-> FALSE]

\* the loop of getTrackedStats: totalBytes += entry.size ?? 0
RECURSIVE TotalBytes(_, _)
TotalBytes(manifest, S) ==
  IF S = {} THEN 0
  ELSE LET p == CHOOSE x \in S : TRUE
           entry == manifest[p]
       IN (IF entry.exists /\ "size" \in DOMAIN entry THEN entry.size ELSE 0)
            + TotalBytes(manifest, S \ {p})

getTrackedStats(manifest) ==
  [fileCount |-> Cardinality({p \in DOMAIN manifest : manifest[p].exists}),
   totalBytes |-> TotalBytes(manifest, DOMAIN manifest)]

\* emitStats: this.onStats?.(this.getTrackedStats())
emitStats(w) == [w EXCEPT !.emittedStats = getTrackedStats(w.trackedManifest)]

\* ensureBase without the test baseManifest.has(relativePath)
ensureBaseUnguarded(w, p, sourceRoot, fp) ==
  IF w.err # "none" THEN w
  ELSE IF fp.op = "ensureBase.read" /\ fp.path = p THEN Throw(w, "ensureBase")
  ELSE
    LET snapshot == readSnapshot(Files(w, sourceRoot), p)
        w1 == [w EXCEPT !.blobs = writeSnapshotToCache(w.blobs, snapshot),
                        !.baseManifest = ManifestSet(w.baseManifest, p, SnapshotEntry(snapshot))]
    IN IF fp.op = "ensureBase.writeBase" /\ fp.path = p THEN Throw(w1, "ensureBase")
       ELSE [w1 EXCEPT !.baseFile = <<w1.baseManifest>>]

ensureBase(w, p, sourceRoot, fp) ==
  IF w.err # "none" THEN w
  ELSE IF p \in DOMAIN w.baseManifest THEN w
  ELSE IF fp.op = "ensureBase.read" /\ fp.path = p THEN Throw(w, "ensureBase")
  ELSE
    LET snapshot == readSnapshot(Files(w, sourceRoot), p)
        w1 == [w EXCEPT !.blobs = writeSnapshotToCache(w.blobs, snapshot),
                        !.baseManifest = ManifestSet(w.baseManifest, p, SnapshotEntry(snapshot))]
    IN IF fp.op = "ensureBase.writeBase" /\ fp.path = p THEN Throw(w1, "ensureBase")
       ELSE [w1 EXCEPT !.baseFile = <<w1.baseManifest>>]

ensureBaseFromSandbox(w, p, fp) == ensureBase(w, p, SANDBOX, fp)

ensureBaseFromDisk(w, p, fp) == ensureBase(w, p, REAL, fp)

updateFromSandbox(w, p, fp) ==
  IF w.err # "none" THEN w
  ELSE IF fp.op = "updateFromSandbox" /\ fp.path = p THEN Throw(w, "updateFromSandbox")
  ELSE
    LET snapshot == readSnapshot(w.sandbox, p)
    IN emitStats([w EXCEPT !.blobs = writeSnapshotToCache(w.blobs, snapshot),
                           !.trackedManifest =
                             ManifestSet(w.trackedManifest, p, SnapshotEntry(snapshot))])

\* markDeleted as { ...previous, exists: false }
markDeletedKeepsHash(w, p) ==
  IF w.err # "none" THEN w
  ELSE emitStats([w EXCEPT !.trackedManifest =
                    ManifestSet(w.trackedManifest, p,
                                IF p \in DOMAIN w.trackedManifest
                                THEN [w.trackedManifest[p] EXCEPT !.exists = FALSE]
                                ELSE [exists |-> FALSE])])

\* markDeleted without the call of emitStats
markDeletedSilent(w, p) ==
  IF w.err # "none" THEN w
  ELSE [w EXCEPT !.trackedManifest = ManifestSet(w.trackedManifest, p, [exists |-> FALSE])]

markDeleted(w, p) ==
  IF w.err # "none" THEN w
  ELSE emitStats([w EXCEPT !.trackedManifest =
                    ManifestSet(w.trackedManifest, p, [exists |-> FALSE])])

\* saveLeaf that sets the tracked entries on top of the manifest saved before
saveLeafMerges(w, leafId, fp) ==
  IF w.err # "none" THEN w
  ELSE IF leafId = Null THEN w
  ELSE
    LET snapshot == IF leafId \in DOMAIN w.leafCache
                    THEN Overlay(w.leafCache[leafId], w.trackedManifest)
                    ELSE w.trackedManifest
        w1 == [w EXCEPT !.leafCache = ManifestSet(w.leafCache, leafId, snapshot)]
    IN IF fp.op = "saveLeaf" THEN Throw(w1, "saveLeaf")
       ELSE [w1 EXCEPT !.leafFiles = ManifestSet(w.leafFiles, leafId, snapshot)]

\* saveLeaf that keeps only the entries that are not the entry of base
saveLeafSparse(w, leafId, fp) ==
  IF w.err # "none" THEN w
  ELSE IF leafId = Null THEN w
  ELSE
    LET changed == {p \in DOMAIN w.trackedManifest :
                      p \notin DOMAIN w.baseManifest
                        \/ w.baseManifest[p] # w.trackedManifest[p]}
        snapshot == [p \in changed |-> w.trackedManifest[p]]
        w1 == [w EXCEPT !.leafCache = ManifestSet(w.leafCache, leafId, snapshot)]
    IN IF fp.op = "saveLeaf" THEN Throw(w1, "saveLeaf")
       ELSE [w1 EXCEPT !.leafFiles = ManifestSet(w.leafFiles, leafId, snapshot)]

saveLeaf(w, leafId, fp) ==
  IF w.err # "none" THEN w
  ELSE IF leafId = Null THEN w
  ELSE
    LET snapshot == w.trackedManifest
        w1 == [w EXCEPT !.leafCache = ManifestSet(w.leafCache, leafId, snapshot)]
    IN IF fp.op = "saveLeaf" THEN Throw(w1, "saveLeaf")
       ELSE [w1 EXCEPT !.leafFiles = ManifestSet(w.leafFiles, leafId, snapshot)]

\* loadLeaf: does leafId have a manifest, in the cache or in the store
HasLeaf(w, leafId) == leafId \in DOMAIN w.leafCache \/ leafId \in DOMAIN w.leafFiles

\* loadLeaf: the manifest returned (when HasLeaf)
loadLeaf(w, leafId) ==
  IF leafId \in DOMAIN w.leafCache THEN w.leafCache[leafId] ELSE w.leafFiles[leafId]

\* loadLeaf: the read-through fills the cache
LoadLeafWorld(w, leafId) ==
  IF leafId \notin DOMAIN w.leafCache /\ leafId \in DOMAIN w.leafFiles
  THEN [w EXCEPT !.leafCache = ManifestSet(w.leafCache, leafId, w.leafFiles[leafId])]
  ELSE w

\* the keys of a manifest in the order applyManifest walks them.  The Map of
\* the source iterates in insertion order, which a function does not keep:
\* the model walks the keys in ascending order.
RECURSIVE KeySeq(_)
KeySeq(S) ==
  IF S = {} THEN <<>>
  ELSE LET m == CHOOSE x \in S : \A y \in S : x <= y
       IN <<m>> \o KeySeq(S \ {m})

\* the iteration removing the file of an entry that has no hash
ApplyEntryRemovesUnhashed(w, entry, root, p) ==
  IF ~entry.exists \/ "hash" \notin DOMAIN entry THEN WithFile(w, root, p, Absent)
  ELSE IF entry.hash \notin DOMAIN w.blobs THEN Throw(w, "readBlob")
  ELSE WithFile(w, root, p, w.blobs[entry.hash])

\* one iteration of the loop of applyManifest
ApplyEntry(w, entry, root, p) ==
  IF ~entry.exists THEN WithFile(w, root, p, Absent)
  ELSE IF "hash" \notin DOMAIN entry THEN w
  ELSE IF entry.hash \notin DOMAIN w.blobs THEN Throw(w, "readBlob")
  ELSE WithFile(w, root, p, w.blobs[entry.hash])

\* applyManifest; budget is the number of entries written before an injected
\* I/O error (-1: none).  Returns the world and the budget left.
RECURSIVE ApplyKeys(_, _, _, _, _)
ApplyKeys(w, manifest, root, keys, budget) ==
  IF w.err # "none" \/ keys = <<>> THEN [w |-> w, budget |-> budget]
  ELSE IF budget = 0 THEN [w |-> Throw(w, "applyManifest"), budget |-> 0]
  ELSE ApplyKeys(ApplyEntry(w, manifest[Head(keys)], root, Head(keys)), manifest, root,
                 Tail(keys), IF budget > 0 THEN budget - 1 ELSE budget)

applyManifest(w, manifest, root, budget) ==
  ApplyKeys(w, manifest, root, KeySeq(DOMAIN manifest), budget)

RECURSIVE ApplyRoots(_, _, _, _)
ApplyRoots(w, manifest, applyRoots, budget) ==
  IF w.err # "none" \/ applyRoots = <<>> THEN w
  ELSE LET r == applyManifest(w, manifest, Head(applyRoots), budget)
       IN ApplyRoots(r.w, manifest, Tail(applyRoots), r.budget)

\* the effective manifest of a leaf: base overlaid by the leaf's manifest
EffectiveManifest(w, leafId) ==
  IF leafId = Null THEN w.baseManifest
  ELSE Overlay(w.baseManifest, loadLeaf(w, leafId))

\* restoreLeaf that adopts the manifest before it is applied to the roots
restoreLeafTracksFirst(w, leafId, applyRoots, fp) ==
  IF w.err # "none" THEN w
  ELSE IF leafId # Null /\ ~HasLeaf(w, leafId) THEN w
  ELSE
    LET w1 == IF leafId = Null THEN w ELSE LoadLeafWorld(w, leafId)
        manifest == EffectiveManifest(w, leafId)
    IN ApplyRoots(emitStats([w1 EXCEPT !.trackedManifest = manifest]), manifest, applyRoots,
                  IF fp.op = "restoreLeaf" THEN fp.n ELSE -1)

\* restoreLeaf writing the files of the outgoing tracked manifest over base,
\* and then adopting the manifest of the leaf
restoreLeafStale(w, leafId, applyRoots, fp) ==
  IF w.err # "none" THEN w
  ELSE IF leafId # Null /\ ~HasLeaf(w, leafId) THEN w
  ELSE
    LET w1 == IF leafId = Null THEN w ELSE LoadLeafWorld(w, leafId)
        w2 == ApplyRoots(w1, Overlay(w.baseManifest, w.trackedManifest), applyRoots,
                         IF fp.op = "restoreLeaf" THEN fp.n ELSE -1)
    IN IF w2.err # "none" THEN w2
       ELSE emitStats([w2 EXCEPT !.trackedManifest = EffectiveManifest(w, leafId)])

restoreLeaf(w, leafId, applyRoots, fp) ==
  IF w.err # "none" THEN w
  ELSE IF leafId # Null /\ ~HasLeaf(w, leafId) THEN w
  ELSE
    LET w1 == IF leafId = Null THEN w ELSE LoadLeafWorld(w, leafId)
        manifest == EffectiveManifest(w, leafId)
        w2 == ApplyRoots(w1, manifest, applyRoots,
                         IF fp.op = "restoreLeaf" THEN fp.n ELSE -1)
    IN IF w2.err # "none" THEN w2
       ELSE emitStats([w2 EXCEPT !.trackedManifest = manifest])

----------------------------------------------------------------------------
(* History *)

\* after: for a restore, the operation of the step before, when that step
\* completed and was on the same leaf id (and, for a restore, the same roots);
\* for a save, "shrinks" when the manifest saved before for the id has a path
\* the tracked manifest lacks; else "none"
Step(op, id, roots, err, after) ==
  [op |-> op, id |-> id, roots |-> roots, err |-> err, after |-> after]

Snapshot ==
  [currentLeafId |-> currentLeafId, undoStack |-> undoStack, redoStack |-> redoStack]

NoSnapshot == [currentLeafId |-> Null, undoStack |-> <<>>, redoStack |-> <<>>]

NoCall == [fn |-> "none"]

----------------------------------------------------------------------------
(* Initial state: the extension is loaded, no session is initialised, the  *)
(* cache directory of the session does not exist and the project is empty. *)

\* everything but the arguments and the result of a function called on its own
Fresh ==
  /\ real = [p \in Paths |-> Absent]
  /\ sandbox = [p \in Paths |-> Absent]
  /\ blobs = [h \in {} |-> 0]
  /\ baseFile = <<>>
  /\ leafFiles = [l \in {} |-> EmptyManifest]
  /\ baseManifest = EmptyManifest
  /\ trackedManifest = EmptyManifest
  /\ leafCache = [l \in {} |-> EmptyManifest]
  /\ stats = [p \in Paths |-> "none"]
  /\ initialized = FALSE
  /\ currentLeafId = Null
  /\ undoStack = <<>>
  /\ redoStack = <<>>
  /\ navigating = FALSE
  /\ hostLeaf = Null
  /\ nextLeaf = 0
  /\ last = Step("init", Null, <<>>, "none", "none")
  /\ pre = NoSnapshot
  /\ faults = 0
  /\ emittedStats = NoStats
  /\ sandboxState = NoSandboxState
  /\ calls = <<>>

Init ==
  /\ Fresh
  /\ input = NoCall
  /\ output = NoCall

----------------------------------------------------------------------------
(* The tracker driven directly through its public methods, as the tests do *)

RootLists == {<<REAL>>, <<SANDBOX>>, <<SANDBOX, REAL>>}

Fail(op, p, n) == [op |-> op, path |-> p, n |-> n]

EnsureBaseFails(p) == {NoFail, Fail("ensureBase.read", p, 0)}

UpdateFails(p) == {NoFail, Fail("updateFromSandbox", p, 0)}

SaveFails == {NoFail, Fail("saveLeaf", 0, 0)}

NoFails == {NoFail}

\* an injected error after n entries of a restore to at most two roots
RestoreFails == {NoFail} \cup {Fail("restoreLeaf", 0, n) : n \in 0..(2 * NumPaths - 1)}

TrackerStep(w, op, id, roots) ==
  /\ SetWorld(w)
  /\ last' = Step(op, id, roots, w.err,
                  IF /\ op = "restoreLeaf"
                     /\ last.err = "none"
                     /\ last.id = id
                     /\ last.op = "saveLeaf" \/ (last.op = "restoreLeaf" /\ last.roots = roots)
                  THEN last.op
                  ELSE IF /\ op = "saveLeaf"
                          /\ id \in DOMAIN leafFiles
                          /\ DOMAIN leafFiles[id] \ DOMAIN trackedManifest # {}
                  THEN "shrinks" ELSE "none")
  /\ pre' = NoSnapshot
  /\ UNCHANGED <<faults, sandboxState, calls, input, output>>

\* a file of either root is written or removed outside the tracker
WriteFile(root, p, c) ==
  /\ Files(World, root)[p] # c
  /\ TrackerStep(WithFile(World, root, p, c), "writeFile", Null, <<>>)

CallEnsureBaseFromSandbox(p, fp) ==
  TrackerStep(ensureBaseFromSandbox(World, p, fp), "ensureBaseFromSandbox", Null, <<>>)

CallEnsureBaseFromDisk(p, fp) ==
  TrackerStep(ensureBaseFromDisk(World, p, fp), "ensureBaseFromDisk", Null, <<>>)

CallUpdateFromSandbox(p, fp) ==
  TrackerStep(updateFromSandbox(World, p, fp), "updateFromSandbox", Null, <<>>)

CallMarkDeleted(p) ==
  TrackerStep(markDeleted(World, p), "markDeleted", Null, <<>>)

CallSaveLeaf(leafId, fp) ==
  TrackerStep(saveLeaf(World, leafId, fp), "saveLeaf", leafId, <<>>)

CallRestoreLeaf(leafId, applyRoots, fp) ==
  TrackerStep(restoreLeaf(World, leafId, applyRoots, fp), "restoreLeaf", leafId, applyRoots)

TrackerNext ==
  \/ \E root \in {REAL, SANDBOX}, p \in Paths, c \in Buffers \cup {Absent} : WriteFile(root, p, c)
  \/ \E p \in Paths : \E fp \in EnsureBaseFails(p) : CallEnsureBaseFromSandbox(p, fp)
  \/ \E p \in Paths : \E fp \in EnsureBaseFails(p) : CallEnsureBaseFromDisk(p, fp)
  \/ \E p \in Paths : \E fp \in UpdateFails(p) : CallUpdateFromSandbox(p, fp)
  \/ \E p \in Paths : CallMarkDeleted(p)
  \/ \E leafId \in Leaves \cup {Null}, fp \in NoFails : CallSaveLeaf(leafId, fp)
  \/ \E leafId \in Leaves \cup {Null}, applyRoots \in RootLists, fp \in RestoreFails :
       CallRestoreLeaf(leafId, applyRoots, fp)

TrackerSpec == Init /\ [][TrackerNext]_vars

\* the tracker recording the files of a sandbox with several paths
StoreInit ==
  /\ real = [p \in DiffPaths |-> Absent]
  /\ sandbox = [p \in DiffPaths |-> Absent]
  /\ blobs = [h \in {} |-> 0]
  /\ baseFile = <<>>
  /\ leafFiles = [l \in {} |-> EmptyManifest]
  /\ baseManifest = EmptyManifest
  /\ trackedManifest = EmptyManifest
  /\ leafCache = [l \in {} |-> EmptyManifest]
  /\ stats = [p \in DiffPaths |-> "none"]
  /\ initialized = FALSE
  /\ currentLeafId = Null
  /\ undoStack = <<>>
  /\ redoStack = <<>>
  /\ navigating = FALSE
  /\ hostLeaf = Null
  /\ nextLeaf = 0
  /\ last = Step("init", Null, <<>>, "none", "none")
  /\ pre = NoSnapshot
  /\ faults = 0
  /\ emittedStats = NoStats
  /\ sandboxState = NoSandboxState
  /\ calls = <<>>
  /\ input = NoCall
  /\ output = NoCall

StoreNext ==
  \/ \E p \in DiffPaths, c \in Buffers : WriteFile(SANDBOX, p, c)
  \/ \E p \in DiffPaths : CallEnsureBaseFromSandbox(p, NoFail)
  \/ \E p \in DiffPaths : CallUpdateFromSandbox(p, NoFail)
  \/ \E leafId \in Leaves : CallSaveLeaf(leafId, NoFail)

StoreSpec == StoreInit /\ [][StoreNext]_vars

\* the operations that change the tracked manifest, over the same two paths;
\* the tests restore into the sandbox root
EmitNext ==
  \/ \E p \in DiffPaths, c \in Buffers : WriteFile(SANDBOX, p, c)
  \/ \E p \in DiffPaths : CallUpdateFromSandbox(p, NoFail)
  \/ \E p \in DiffPaths : CallMarkDeleted(p)
  \/ \E leafId \in Leaves : CallSaveLeaf(leafId, NoFail)
  \/ \E leafId \in Leaves \cup {Null} : CallRestoreLeaf(leafId, <<SANDBOX>>, NoFail)

EmitSpec == StoreInit /\ [][EmitNext]_vars

----------------------------------------------------------------------------
(* The tracker with calls that overlap: saveLeaf and ensureBase are taken  *)
(* one await at a time, and other calls run between their stages.  calls   *)
(* keeps every call made, in the order they were made: a call that has     *)
(* returned stays in it with the stage "done".                             *)

MaxCalls == 2

\* saveLeaf up to its await: the copy of the tracked manifest is put in the
\* leaf cache
saveLeafCall(w, leafId) ==
  [w EXCEPT !.leafCache = ManifestSet(w.leafCache, leafId, w.trackedManifest)]

\* the call of cache.writeLeaf that saveLeaf awaits: snapshot is the copy
\* made at the call, which writeManifestFile serialises before its await
saveLeafFrame(w, leafId) ==
  [fn |-> "saveLeaf", leafId |-> leafId, snapshot |-> w.trackedManifest,
   stage |-> "writing"]

\* a leaf write that serialises the tracked manifest of the moment it lands
writeLeafLandsLive(w, frame) ==
  [w EXCEPT !.leafFiles = ManifestSet(w.leafFiles, frame.leafId, w.trackedManifest)]

\* the writeFile of a leaf manifest lands
writeLeafLands(w, frame) ==
  [w EXCEPT !.leafFiles = ManifestSet(w.leafFiles, frame.leafId, frame.snapshot)]

\* ensureBase past its test of the base manifest, about to read the file;
\* concurrent holds the positions of the ensureBase calls for the same path
\* that have not recorded their entry yet
ensureBaseFrame(p, sourceRoot) ==
  [fn |-> "ensureBase", path |-> p, sourceRoot |-> sourceRoot, stage |-> "reading",
   concurrent |-> {i \in 1..Len(calls) : /\ calls[i].fn = "ensureBase"
                                         /\ calls[i].path = p
                                         /\ calls[i].stage \in {"reading", "read"}}]

\* readSnapshot returns
ensureBaseRead(w, frame) ==
  [fn |-> "ensureBase", path |-> frame.path, sourceRoot |-> frame.sourceRoot,
   stage |-> "read", concurrent |-> frame.concurrent,
   snapshot |-> readSnapshot(Files(w, frame.sourceRoot), frame.path)]

\* writeSnapshotToCache and baseManifest.set
ensureBaseRecord(w, frame) ==
  [w EXCEPT !.blobs = writeSnapshotToCache(w.blobs, frame.snapshot),
            !.baseManifest = ManifestSet(w.baseManifest, frame.path,
                                         SnapshotEntry(frame.snapshot))]

\* the call of cache.writeBase that ensureBase awaits: payload is the base
\* manifest as writeManifestFile serialises it before its await
ensureBaseWriting(w, frame) ==
  [fn |-> "ensureBase", path |-> frame.path, sourceRoot |-> frame.sourceRoot,
   stage |-> "writing", concurrent |-> frame.concurrent,
   snapshot |-> frame.snapshot, payload |-> ensureBaseRecord(w, frame).baseManifest]

\* the writeFile of the base manifest lands
writeBaseLands(w, frame) == [w EXCEPT !.baseFile = <<frame.payload>>]

Done(frame) == [frame EXCEPT !.stage = "done"]

InStage(fn, stage) == {i \in 1..Len(calls) : calls[i].fn = fn /\ calls[i].stage = stage}

AsyncStep(w, op, id, newCalls) ==
  /\ SetWorld(w)
  /\ calls' = newCalls
  /\ last' = Step(op, id, <<>>, w.err, "none")
  /\ pre' = NoSnapshot
  /\ UNCHANGED <<faults, sandboxState, input, output>>

\* saveLeaf(leafId) is called, with no other saveLeaf awaiting its write
BeginSaveLeaf(leafId) ==
  /\ Len(calls) < MaxCalls
  /\ InStage("saveLeaf", "writing") = {}
  /\ AsyncStep(saveLeafCall(World, leafId), "saveLeaf.call", leafId,
               Append(calls, saveLeafFrame(World, leafId)))

WriteLeafLands(i) ==
  /\ i \in InStage("saveLeaf", "writing")
  /\ AsyncStep(writeLeafLands(World, calls[i]), "saveLeaf.return", calls[i].leafId,
               [calls EXCEPT ![i] = Done(calls[i])])

\* ensureBaseFromSandbox(p) is called for a path the base manifest lacks
BeginEnsureBase(p) ==
  /\ Len(calls) < MaxCalls
  /\ p \notin DOMAIN baseManifest
  /\ AsyncStep(World, "ensureBase.call", Null, Append(calls, ensureBaseFrame(p, SANDBOX)))

EnsureBaseRead(i) ==
  /\ i \in InStage("ensureBase", "reading")
  /\ AsyncStep(World, "ensureBase.read", Null,
               [calls EXCEPT ![i] = ensureBaseRead(World, calls[i])])

EnsureBaseRecord(i) ==
  /\ i \in InStage("ensureBase", "read")
  /\ AsyncStep(ensureBaseRecord(World, calls[i]), "ensureBase.set", Null,
               [calls EXCEPT ![i] = ensureBaseWriting(World, calls[i])])

WriteBaseLands(i) ==
  /\ i \in InStage("ensureBase", "writing")
  /\ AsyncStep(writeBaseLands(World, calls[i]), "ensureBase.return", Null,
               [calls EXCEPT ![i] = Done(calls[i])])

AsyncNext ==
  \/ \E p \in Paths, c \in Buffers \cup {Absent} : WriteFile(SANDBOX, p, c)
  \/ \E p \in Paths : CallUpdateFromSandbox(p, NoFail)
  \/ \E p \in Paths : CallMarkDeleted(p)
  \/ \E leafId \in Leaves \cup {Null} : CallRestoreLeaf(leafId, <<SANDBOX>>, NoFail)
  \/ \E leafId \in Leaves : BeginSaveLeaf(leafId)
  \/ \E i \in 1..MaxCalls : WriteLeafLands(i)
  \/ \E p \in Paths : BeginEnsureBase(p)
  \/ \E i \in 1..MaxCalls : EnsureBaseRead(i)
  \/ \E i \in 1..MaxCalls : EnsureBaseRecord(i)
  \/ \E i \in 1..MaxCalls : WriteBaseLands(i)

AsyncSpec == Init /\ [][AsyncNext]_vars

----------------------------------------------------------------------------
(* sandbox.ts.  stats[p] abstracts the stat map against the sandbox file:  *)
(* "none": no entry; "same": the entry is the file's size and mtime;       *)
(* "diff": the file was written or removed since the entry was recorded.   *)

ensureSandboxFile(w, p) ==
  IF w.err # "none" THEN w
  ELSE IF w.sandbox[p] # Absent THEN w
  ELSE IF w.real[p] = Absent THEN w
  ELSE WithFile(w, SANDBOX, p, w.real[p])

syncFileFromSandbox(w, p) ==
  IF w.err # "none" THEN w
  ELSE IF w.sandbox[p] = Absent THEN Throw(w, "syncFileFromSandbox")
  ELSE WithFile(w, REAL, p, w.sandbox[p])

removeFileFromDisk(w, p) ==
  IF w.err # "none" THEN w ELSE WithFile(w, REAL, p, Absent)

\* the stat map scanSandboxStats returns
scanSandboxStats(w) == [p \in Paths |-> IF w.sandbox[p] # Absent THEN "same" ELSE "none"]

\* sandboxState.setStats(await sandboxState.rescan())
rescan(w) ==
  IF w.err # "none" THEN w ELSE [w EXCEPT !.stats = scanSandboxStats(w)]

updateFile(w, p) ==
  IF w.err # "none" THEN w ELSE [w EXCEPT !.stats[p] = scanSandboxStats(w)[p]]

\* diffSandboxStats(sandboxState.getStats(), await sandboxState.rescan())
diffSandboxStats(w) ==
  [added |-> {p \in Paths : w.stats[p] = "none" /\ w.sandbox[p] # Absent},
   changed |-> {p \in Paths : w.stats[p] = "diff" /\ w.sandbox[p] # Absent},
   removed |-> {p \in Paths : w.stats[p] # "none" /\ w.sandbox[p] = Absent}]

----------------------------------------------------------------------------
(* tools.ts: the buffered tools *)

ToolFails(S) ==
  {NoFail} \cup {Fail(o, p, 0) : o \in {"ensureBase.read", "updateFromSandbox"}, p \in S}

trackRead(w, p, fp) ==
  LET w1 == updateFromSandbox(ensureBaseFromSandbox(w, p, fp), p, fp)
  IN [w1 EXCEPT !.err = "none"]

readExecute(w, p, fp) ==
  LET w1 == ensureSandboxFile(w, p)
  IN IF w1.sandbox[p] = Absent THEN Throw(w1, "tool")
     ELSE trackRead(w1, p, fp)

\* baseEditTool.execute with editOps: the file must exist, its text becomes c
baseEditTool(w, p, c) ==
  IF w.err # "none" THEN w
  ELSE LET w1 == ensureSandboxFile(w, p)
       IN IF w1.sandbox[p] = Absent THEN Throw(w1, "tool")
          ELSE WithFile(w1, SANDBOX, p, c)

\* baseWriteTool.execute with writeOps
baseWriteTool(w, p, c) ==
  IF w.err # "none" THEN w
  ELSE WithFile(ensureSandboxFile(w, p), SANDBOX, p, c)

\* the tracking and sync after an edit or a write
TrackWrite(w, p, fp) ==
  updateFile(syncFileFromSandbox(updateFromSandbox(w, p, fp), p), p)

editExecute(w, p, c, fp) ==
  TrackWrite(baseEditTool(ensureBaseFromSandbox(w, p, fp), p, c), p, fp)

writeExecute(w, p, c, fp) ==
  TrackWrite(baseWriteTool(ensureBaseFromSandbox(w, p, fp), p, c), p, fp)

\* the shell command run in the sandbox: it writes effect.content[p] to every
\* path p of effect.touched, or removes p when that is Absent
RECURSIVE RunCommand(_, _, _)
RunCommand(w, effect, keys) ==
  IF keys = <<>> THEN w
  ELSE RunCommand(IF Head(keys) \in effect.touched
                  THEN WithFile(w, SANDBOX, Head(keys), effect.content[Head(keys)])
                  ELSE w,
                  effect, Tail(keys))

RECURSIVE TrackChanged(_, _, _)
TrackChanged(w, keys, fp) ==
  IF keys = <<>> THEN w
  ELSE TrackChanged(
         syncFileFromSandbox(
           updateFromSandbox(ensureBaseFromDisk(w, Head(keys), fp), Head(keys), fp),
           Head(keys)),
         Tail(keys), fp)

RECURSIVE TrackRemoved(_, _, _)
TrackRemoved(w, keys, fp) ==
  IF keys = <<>> THEN w
  ELSE TrackRemoved(
         removeFileFromDisk(markDeleted(ensureBaseFromDisk(w, Head(keys), fp), Head(keys)),
                            Head(keys)),
         Tail(keys), fp)

bashExecute(w, effect, commandFails, fp) ==
  LET w1 == RunCommand(w, effect, KeySeq(Paths))
      diff == diffSandboxStats(w1)
      w2 == rescan(w1)
      w3 == TrackChanged(w2, KeySeq(diff.added), fp)
      w4 == TrackChanged(w3, KeySeq(diff.changed), fp)
      w5 == TrackRemoved(w4, KeySeq(diff.removed), fp)
  IN IF w5.err = "none" /\ commandFails THEN Throw(w5, "tool") ELSE w5

----------------------------------------------------------------------------
(* index.ts: the session handlers *)

Push(stack, x) == Append(stack, x)

Top(stack) == stack[Len(stack)]

Pop(stack) == SubSeq(stack, 1, Len(stack) - 1)

\* a restore into the sandbox alone
SandboxOnly == <<SANDBOX>>

\* [session.sandboxRoot, session.realRoot]
BOTH == <<SANDBOX, REAL>>

\* initializeSession.  sandboxState.initialize() copies the real root into a
\* fresh sandbox or reconciles a reused one with it by size and mtime; the
\* tracker is a new one.
initializeSession(w) ==
  LET w1 == [w EXCEPT !.sandbox = w.real]
      w2 == [rescan(w1) EXCEPT
               !.baseManifest = IF w.baseFile = <<>> THEN EmptyManifest ELSE w.baseFile[1],
               !.trackedManifest = EmptyManifest,
               !.leafCache = [l \in {} |-> EmptyManifest],
               !.emittedStats = NoStats]
      cur == w.hostLeaf
      w3 == IF cur # Null /\ HasLeaf(w2, cur) THEN restoreLeaf(w2, cur, BOTH, NoFail) ELSE w2
      w4 == [rescan(w3) EXCEPT !.initialized = TRUE, !.currentLeafId = cur,
                               !.undoStack = <<>>, !.redoStack = <<>>,
                               !.navigating = FALSE]
  IN saveLeaf(w4, cur, NoFail)

\* rm that removes the blobs and the leaf manifests and leaves base.json
ClearedCacheKeepsBase(w) ==
  [w EXCEPT !.blobs = [h \in {} |-> 0], !.leafFiles = [l \in {} |-> EmptyManifest]]

\* rm(session.cache.root): blobs, manifests and the sandbox directory
ClearedCache(w) ==
  [w EXCEPT !.blobs = [h \in {} |-> 0], !.baseFile = <<>>,
            !.leafFiles = [l \in {} |-> EmptyManifest]]

\* handleTurnEnd that saves before it adopts the leaf of the session manager
handleTurnEndSavesOld(w, isToolCallTurn, fp) ==
  IF isToolCallTurn THEN w
  ELSE
    LET leafId == w.hostLeaf
        w1 == saveLeaf(w, w.currentLeafId, fp)
    IN IF w1.err = "none" /\ leafId # Null /\ leafId # w.currentLeafId
       THEN [w1 EXCEPT !.undoStack = IF w.currentLeafId # Null
                                     THEN Push(w.undoStack, w.currentLeafId)
                                     ELSE w.undoStack,
                       !.currentLeafId = leafId]
       ELSE w1

\* handleTurnEnd that pushes the leaf it moves to
handleTurnEndPushesNew(w, isToolCallTurn, fp) ==
  IF isToolCallTurn THEN w
  ELSE
    LET leafId == w.hostLeaf
        w1 == IF leafId # Null /\ leafId # w.currentLeafId
              THEN [w EXCEPT !.undoStack = IF w.currentLeafId # Null
                                           THEN Push(w.undoStack, leafId)
                                           ELSE w.undoStack,
                             !.currentLeafId = leafId]
              ELSE w
    IN saveLeaf(w1, w1.currentLeafId, fp)

handleTurnEnd(w, isToolCallTurn, fp) ==
  IF isToolCallTurn THEN w
  ELSE
    LET leafId == w.hostLeaf
        w1 == IF leafId # Null /\ leafId # w.currentLeafId
              THEN [w EXCEPT !.undoStack = IF w.currentLeafId # Null
                                           THEN Push(w.undoStack, w.currentLeafId)
                                           ELSE w.undoStack,
                             !.currentLeafId = leafId]
              ELSE w
    IN saveLeaf(w1, w1.currentLeafId, fp)

\* handleSessionTree without the test of the navigating flag
handleSessionTreeAlwaysPushes(w, oldLeafId, newLeafId, fp) ==
  LET w1 == IF oldLeafId # Null /\ oldLeafId # newLeafId
            THEN [w EXCEPT !.undoStack = Push(w.undoStack, oldLeafId)]
            ELSE w
      w2 == [w1 EXCEPT !.currentLeafId = newLeafId]
      w3 == rescan(restoreLeaf(w2, newLeafId, BOTH, fp))
  IN IF w3.err # "none" THEN w3 ELSE [w3 EXCEPT !.navigating = FALSE]

handleSessionTree(w, oldLeafId, newLeafId, fp) ==
  LET w1 == IF ~w.navigating /\ oldLeafId # Null /\ oldLeafId # newLeafId
            THEN [w EXCEPT !.undoStack = Push(w.undoStack, oldLeafId)]
            ELSE w
      w2 == [w1 EXCEPT !.currentLeafId = newLeafId]
      w3 == rescan(restoreLeaf(w2, newLeafId, BOTH, fp))
  IN IF w3.err # "none" THEN w3 ELSE [w3 EXCEPT !.navigating = FALSE]

\* ctx.navigateTree(targetId) moving: the host moves its leaf and emits
\* session_tree, whose handler runs before navigateTree returns; fp is the
\* I/O error injected in the handler
navigateTree(w, targetId, fp) ==
  handleSessionTree([w EXCEPT !.hostLeaf = targetId], w.hostLeaf, targetId, fp)

NavigateOutcomes == {"ok", "unavailable", "throws", "cancelled"}

\* navigateTo; an error thrown by the session_tree handler inside
\* navigateTree is the host's to deal with: it is either reported by the host
\* while navigateTree resolves (outcome "ok", the command ends with
\* "handlerFailed") or rethrown by navigateTree (outcome "throws")
navigateTo(w, targetId, outcome, fp) ==
  LET previousLeaf == w.currentLeafId
      previousUndo == w.undoStack
      previousRedo == w.redoStack
      w1 == [w EXCEPT !.navigating = TRUE]
      w2 == navigateTree(w1, targetId, fp)
  IN IF outcome = "unavailable" THEN Throw([w1 EXCEPT !.navigating = FALSE], outcome)
     ELSE IF outcome = "ok"
     THEN IF w2.err = "none" THEN w2 ELSE Throw(w2, "handlerFailed")
     ELSE Throw([(IF fp = NoFail THEN w1 ELSE w2) EXCEPT
                   !.undoStack = previousUndo, !.redoStack = previousRedo,
                   !.currentLeafId = previousLeaf, !.navigating = FALSE], outcome)

\* the handler of /undo, past the empty-stack test
undoCommand(w, outcome, fp) ==
  LET targetId == Top(w.undoStack)
      w1 == [w EXCEPT !.undoStack = Pop(w.undoStack),
                      !.redoStack = IF w.currentLeafId # Null
                                    THEN Push(w.redoStack, w.currentLeafId)
                                    ELSE w.redoStack]
  IN navigateTo(w1, targetId, outcome, fp)

\* the handler of /redo, past the empty-stack test
redoCommand(w, outcome, fp) ==
  LET targetId == Top(w.redoStack)
      w1 == [w EXCEPT !.redoStack = Pop(w.redoStack),
                      !.undoStack = IF w.currentLeafId # Null
                                    THEN Push(w.undoStack, w.currentLeafId)
                                    ELSE w.undoStack]
  IN navigateTo(w1, targetId, outcome, fp)

\* syncLeafToSession that moves the session manager's leaf only
syncLeafToSessionKeepsLeaf(w, targetId, fp) ==
  IF w.err # "none" THEN w
  ELSE rescan(restoreLeaf([w EXCEPT !.hostLeaf = targetId], targetId, BOTH, fp))

syncLeafToSession(w, targetId, fp) ==
  IF w.err # "none" THEN w
  ELSE rescan(restoreLeaf([w EXCEPT !.hostLeaf = targetId, !.currentLeafId = targetId],
                          targetId, BOTH, fp))

\* applyToolNavigation with a catch block that leaves the stacks as popped
\* and pushed
applyToolNavigationKeepsStacks(w, action, fp, fpCatch) ==
  LET previousLeaf == w.currentLeafId
      targetId == IF action = "undo" THEN Top(w.undoStack) ELSE Top(w.redoStack)
      w1 == IF action = "undo"
            THEN [w EXCEPT !.undoStack = Pop(w.undoStack),
                           !.redoStack = IF previousLeaf # Null
                                         THEN Push(w.redoStack, previousLeaf)
                                         ELSE w.redoStack]
            ELSE [w EXCEPT !.redoStack = Pop(w.redoStack),
                           !.undoStack = IF previousLeaf # Null
                                         THEN Push(w.undoStack, previousLeaf)
                                         ELSE w.undoStack]
      w2 == syncLeafToSession(saveLeaf(w1, previousLeaf, fp), targetId, fp)
      w3 == [w2 EXCEPT !.currentLeafId = previousLeaf, !.err = "none"]
      w4 == syncLeafToSession(w3, previousLeaf, fpCatch)
  IN IF w2.err = "none" THEN w2
     ELSE IF w4.err = "none" THEN Throw(w4, "toolFailed")
     ELSE Throw(w4, "rollbackFailed")

\* applyToolNavigation, past the empty-stack test; fp is the fail point of
\* the try block and fpCatch the one of the catch block
applyToolNavigation(w, action, fp, fpCatch) ==
  LET previousLeaf == w.currentLeafId
      previousUndo == w.undoStack
      previousRedo == w.redoStack
      targetId == IF action = "undo" THEN Top(w.undoStack) ELSE Top(w.redoStack)
      w1 == IF action = "undo"
            THEN [w EXCEPT !.undoStack = Pop(w.undoStack),
                           !.redoStack = IF previousLeaf # Null
                                         THEN Push(w.redoStack, previousLeaf)
                                         ELSE w.redoStack]
            ELSE [w EXCEPT !.redoStack = Pop(w.redoStack),
                           !.undoStack = IF previousLeaf # Null
                                         THEN Push(w.undoStack, previousLeaf)
                                         ELSE w.undoStack]
      w2 == syncLeafToSession(saveLeaf(w1, previousLeaf, fp), targetId, fp)
      w3 == [w2 EXCEPT !.undoStack = previousUndo, !.redoStack = previousRedo,
                       !.currentLeafId = previousLeaf, !.err = "none"]
      w4 == syncLeafToSession(w3, previousLeaf, fpCatch)
  IN IF w2.err = "none" THEN w2
     ELSE IF w4.err = "none" THEN Throw(w4, "toolFailed")
     ELSE Throw(w4, "rollbackFailed")

----------------------------------------------------------------------------
(* The extension in its host: every event and every tool call is one step  *)

\* a handler step; fp is the I/O error injected in it (NoFail: none)
FaultyStep(w, op, snap, fp) ==
  /\ fp # NoFail => faults < MaxFaults
  /\ faults' = IF fp # NoFail THEN faults + 1 ELSE faults
  /\ Len(w.undoStack) <= MaxStack
  /\ Len(w.redoStack) <= MaxStack
  /\ SetWorld(w)
  /\ last' = Step(op, Null, <<>>, w.err, "none")
  /\ pre' = IF w.err = "none" THEN snap ELSE NoSnapshot
  /\ UNCHANGED <<sandboxState, calls, input, output>>

HandlerStep(w, op, snap) == FaultyStep(w, op, snap, NoFail)

\* the host appends an entry to the session: the leaf is a new id
HostAppend ==
  /\ nextLeaf < MaxLeaves
  /\ HandlerStep([World EXCEPT !.hostLeaf = nextLeaf + 1, !.nextLeaf = nextLeaf + 1],
                 "append", NoSnapshot)

\* a file of the real root is written or removed by something else
ExternalWrite(p, c) ==
  /\ real[p] # c
  /\ HandlerStep(WithFile(World, REAL, p, c), "external", NoSnapshot)

\* session_start, session_switch and session_fork; newSession: the session
\* id has no cache directory yet
SessionStart(newSession) ==
  HandlerStep(initializeSession(IF newSession THEN ClearedCache(World) ELSE World),
              "session_start", Snapshot)

ClearCacheCommand ==
  /\ initialized
  /\ HandlerStep(initializeSession(ClearedCache(World)), "clear-cache", Snapshot)

TurnEnd(isToolCallTurn) ==
  /\ initialized
  /\ HandlerStep(handleTurnEnd(World, isToolCallTurn, NoFail),
                 IF isToolCallTurn THEN "turn_end.toolCall" ELSE "turn_end", NoSnapshot)

\* the user moves in the session tree: session_tree outside /undo and /redo
SessionTree(newLeafId, fp) ==
  /\ initialized
  /\ newLeafId # hostLeaf
  /\ FaultyStep(handleSessionTree([World EXCEPT !.hostLeaf = newLeafId], hostLeaf,
                                  newLeafId, fp),
                "session_tree", NoSnapshot, fp)

\* /undo that pushes the current leaf onto the redo stack before it tests
\* the undo stack
UndoCommandPushesFirst(outcome, fp) ==
  /\ initialized
  /\ fp # NoFail => outcome \in {"ok", "throws"}
  /\ IF undoStack = <<>>
     THEN /\ outcome = "ok" /\ fp = NoFail
          /\ HandlerStep(Throw([World EXCEPT !.redoStack =
                                   IF currentLeafId # Null /\ redoStack = <<>>
                                   THEN Push(redoStack, currentLeafId)
                                   ELSE redoStack],
                               "noHistory"), "undo", NoSnapshot)
     ELSE /\ (fp # NoFail /\ outcome = "throws")
               => undoCommand(World, "ok", fp).err = "handlerFailed"
          /\ FaultyStep(undoCommand(World, outcome, fp), "undo", Snapshot, fp)

UndoCommand(outcome, fp) ==
  /\ initialized
  /\ fp # NoFail => outcome \in {"ok", "throws"}
  /\ IF undoStack = <<>>
     THEN /\ outcome = "ok" /\ fp = NoFail
          /\ HandlerStep(Throw(World, "noHistory"), "undo", NoSnapshot)
     ELSE /\ (fp # NoFail /\ outcome = "throws")
               => undoCommand(World, "ok", fp).err = "handlerFailed"
          /\ FaultyStep(undoCommand(World, outcome, fp), "undo", Snapshot, fp)

RedoCommand(outcome, fp) ==
  /\ initialized
  /\ fp # NoFail => outcome \in {"ok", "throws"}
  /\ IF redoStack = <<>>
     THEN /\ outcome = "ok" /\ fp = NoFail
          /\ HandlerStep(Throw(World, "noHistory"), "redo", NoSnapshot)
     ELSE /\ (fp # NoFail /\ outcome = "throws")
               => redoCommand(World, "ok", fp).err = "handlerFailed"
          /\ FaultyStep(redoCommand(World, outcome, fp), "redo", Snapshot, fp)

NavigationFails == SaveFails \cup RestoreFails

\* the undo and redo actions of the undo_redo tool, called within a turn
UndoRedoTool(action, fp, fpCatch) ==
  /\ initialized
  /\ hostLeaf # Null
  /\ fp = NoFail => fpCatch = NoFail
  /\ LET w == [World EXCEPT !.currentLeafId = hostLeaf]
         stack == IF action = "undo" THEN undoStack ELSE redoStack
     IN IF stack = <<>>
        THEN fp = NoFail /\ HandlerStep(Throw(w, "noHistory"), "tool." \o action, NoSnapshot)
        ELSE FaultyStep(applyToolNavigation(w, action, fp, fpCatch), "tool." \o action,
                        [Snapshot EXCEPT !.currentLeafId = hostLeaf], fp)

ReadTool(p, fp) ==
  /\ initialized
  /\ FaultyStep(readExecute(World, p, fp), "read", NoSnapshot, fp)

EditTool(p, c, fp) ==
  /\ initialized
  /\ c # ensureSandboxFile(World, p).sandbox[p]
  /\ FaultyStep(editExecute(World, p, c, fp), "edit", NoSnapshot, fp)

WriteTool(p, c, fp) ==
  /\ initialized
  /\ FaultyStep(writeExecute(World, p, c, fp), "write", NoSnapshot, fp)

\* the effects a shell command can have on the sandbox
Effects ==
  {[touched |-> t, content |-> c] : t \in SUBSET Paths, c \in [Paths -> Buffers \cup {Absent}]}

BashTool(effect, commandFails, fp) ==
  /\ initialized
  /\ \A p \in Paths : effect.content[p] = Absent => (p \notin effect.touched \/ sandbox[p] # Absent)
  /\ \A p \in Paths : p \notin effect.touched => effect.content[p] = Absent
  /\ FaultyStep(bashExecute(World, effect, commandFails, fp), "bash", NoSnapshot, fp)

\* navigation in a session: the project file is absent or holds the first
\* content when the session starts, tool calls and turns complete, and the
\* I/O errors are those of the saves and restores of leaves
NavNext ==
  \/ HostAppend
  \/ ~initialized /\ \E p \in Paths : ExternalWrite(p, 1)
  \/ ~initialized /\ SessionStart(TRUE)
  \/ TurnEnd(FALSE)
  \/ \E newLeafId \in 0..nextLeaf, fp \in RestoreFails : SessionTree(newLeafId, fp)
  \/ \E outcome \in NavigateOutcomes, fp \in RestoreFails : UndoCommand(outcome, fp)
  \/ \E outcome \in NavigateOutcomes, fp \in RestoreFails : RedoCommand(outcome, fp)
  \/ \E action \in {"undo", "redo"}, fp \in NavigationFails, fpCatch \in RestoreFails :
       UndoRedoTool(action, fp, fpCatch)
  \/ \E p \in Paths, c \in Buffers : WriteTool(p, c, NoFail)

NavSpec == Init /\ [][NavNext]_vars

ToolNext ==
  \/ \E p \in Paths, c \in Buffers \cup {Absent} : ExternalWrite(p, c)
  \/ \E newSession \in BOOLEAN : SessionStart(newSession)
  \/ ClearCacheCommand
  \/ \E p \in Paths : \E fp \in ToolFails({p}) : ReadTool(p, fp)
  \/ \E p \in Paths, c \in Buffers : \E fp \in ToolFails({p}) : EditTool(p, c, fp)
  \/ \E p \in Paths, c \in Buffers : \E fp \in ToolFails({p}) : WriteTool(p, c, fp)
  \/ \E effect \in Effects, commandFails \in BOOLEAN, fp \in ToolFails(Paths) :
       BashTool(effect, commandFails, fp)

ToolSpec == Init /\ [][ToolNext]_vars

\* sessions that start, resume and are cleared between turns, tool calls and
\* moves in the session tree
SessionNext ==
  \/ HostAppend
  \/ ~initialized /\ \E p \in Paths, c \in Buffers \cup {Absent} : ExternalWrite(p, c)
  \/ \E newSession \in BOOLEAN : SessionStart(newSession)
  \/ ClearCacheCommand
  \/ \E isToolCallTurn \in BOOLEAN : TurnEnd(isToolCallTurn)
  \/ \E newLeafId \in 0..nextLeaf : SessionTree(newLeafId, NoFail)
  \/ \E outcome \in {"ok"} : UndoCommand(outcome, NoFail)
  \/ \E outcome \in {"ok"} : RedoCommand(outcome, NoFail)
  \/ \E p \in Paths : ReadTool(p, NoFail)
  \/ \E p \in Paths, c \in Buffers : EditTool(p, c, NoFail)
  \/ \E p \in Paths, c \in Buffers : WriteTool(p, c, NoFail)
  \/ \E effect \in Effects, commandFails \in BOOLEAN : BashTool(effect, commandFails, NoFail)

SessionSpec == Init /\ [][SessionNext]_vars

\* the awaits of a tool wrapper that can reject, the write of base.json by
\* ensureBase among them
PersistFails(p) == ToolFails({p}) \cup {Fail("ensureBase.writeBase", p, 0)}

\* a session that is resumed from its cache after tool calls, some of which
\* met an I/O error
ResumeNext ==
  \/ HostAppend
  \/ ~initialized /\ \E p \in Paths, c \in Buffers \cup {Absent} : ExternalWrite(p, c)
  \/ \E newSession \in BOOLEAN : SessionStart(newSession)
  \/ \E isToolCallTurn \in BOOLEAN : TurnEnd(isToolCallTurn)
  \/ \E newLeafId \in 0..nextLeaf : SessionTree(newLeafId, NoFail)
  \/ \E p \in Paths : \E fp \in PersistFails(p) : ReadTool(p, fp)
  \/ \E p \in Paths, c \in Buffers : \E fp \in PersistFails(p) : WriteTool(p, c, fp)

ResumeSpec == Init /\ [][ResumeNext]_vars

----------------------------------------------------------------------------
(* diff-stack.ts and diffSandboxStats: functions of their arguments, called *)
(* on arguments drawn from bounded sets                                     *)

machine == <<real, sandbox, blobs, baseFile, leafFiles, baseManifest, trackedManifest,
             leafCache, stats, initialized, currentLeafId, undoStack, redoStack,
             navigating, hostLeaf, nextLeaf, last, pre, faults, emittedStats,
             sandboxState, calls>>

\* what Map.get returns for a key the map does not hold
Undefined == [undefined |-> TRUE]

Get(manifest, p) == IF p \in DOMAIN manifest THEN manifest[p] ELSE Undefined

\* entry?.exists ?? false
ExistsOf(entry) == IF "exists" \in DOMAIN entry THEN entry.exists ELSE FALSE

\* entry?.hash
HashOf(entry) == IF "hash" \in DOMAIN entry THEN entry.hash ELSE <<"undefined">>

describeChangeIgnoresHash(baseEntry, leafEntry) ==
  LET baseExists == ExistsOf(baseEntry)
      leafExists == ExistsOf(leafEntry)
  IN IF ~baseExists /\ leafExists THEN "A"
     ELSE IF baseExists /\ ~leafExists THEN "D"
     ELSE IF baseExists /\ leafExists THEN "M"
     ELSE "null"

describeChange(baseEntry, leafEntry) ==
  LET baseExists == ExistsOf(baseEntry)
      leafExists == ExistsOf(leafEntry)
  IN IF ~baseExists /\ leafExists THEN "A"
     ELSE IF baseExists /\ ~leafExists THEN "D"
     ELSE IF baseExists /\ leafExists /\ HashOf(baseEntry) # HashOf(leafEntry) THEN "M"
     ELSE "null"

toChangeType(change) ==
  CASE change = "A" -> "added"
    [] change = "M" -> "modified"
    [] change = "D" -> "deleted"

\* the values of FileState: every optional field present or not
FileStates ==
  {[exists |-> FALSE], [exists |-> TRUE]}
  \cup {[exists |-> FALSE, hash |-> hashBuffer(b)] : b \in Buffers}
  \cup {[exists |-> TRUE, hash |-> hashBuffer(b), size |-> Size(b), binary |-> bin] :
          b \in Buffers, bin \in BOOLEAN}

ClassifyInit ==
  /\ Fresh
  /\ input \in {[fn |-> "describeChange", baseEntry |-> b, leafEntry |-> l] :
                  b, l \in FileStates \cup {Undefined}}
  /\ output = NoCall

CallDescribeChange ==
  /\ input.fn = "describeChange"
  /\ output = NoCall
  /\ output' = [fn |-> "describeChange",
                change |-> describeChange(input.baseEntry, input.leafEntry)]
  /\ UNCHANGED <<machine, input>>

ClassifySpec == ClassifyInit /\ [][CallDescribeChange]_vars

\* the stat maps: some of the paths, each with a size and a modification time
SandboxEntryStats == [size : 1..NumStats, mtimeMs : 1..NumStats]

StatMaps == UNION {[S -> SandboxEntryStats] : S \in SUBSET DiffPaths}

\* the keys that are in hit, pushed in the order the loop meets them
RECURSIVE Pushed(_, _)
Pushed(keys, hit) ==
  IF keys = <<>> THEN <<>>
  ELSE IF Head(keys) \in hit THEN <<Head(keys)>> \o Pushed(Tail(keys), hit)
  ELSE Pushed(Tail(keys), hit)

diffSandboxStatsSizeOnly(before, after) ==
  [added |-> Pushed(KeySeq(DOMAIN after), {p \in DOMAIN after : p \notin DOMAIN before}),
   changed |-> Pushed(KeySeq(DOMAIN after),
                 {p \in DOMAIN after : p \in DOMAIN before /\ before[p].size # after[p].size}),
   removed |-> Pushed(KeySeq(DOMAIN before), {p \in DOMAIN before : p \notin DOMAIN after})]

\* diffSandboxStats on the stat maps themselves
diffSandboxStatsOf(before, after) ==
  [added |-> Pushed(KeySeq(DOMAIN after), {p \in DOMAIN after : p \notin DOMAIN before}),
   changed |-> Pushed(KeySeq(DOMAIN after),
                 {p \in DOMAIN after : p \in DOMAIN before
                    /\ (before[p].size # after[p].size \/ before[p].mtimeMs # after[p].mtimeMs)}),
   removed |-> Pushed(KeySeq(DOMAIN before), {p \in DOMAIN before : p \notin DOMAIN after})]

StatsInit ==
  /\ Fresh
  /\ input \in {[fn |-> "diffSandboxStats", before |-> b, after |-> a] : b, a \in StatMaps}
  /\ output = NoCall

CallDiffSandboxStats ==
  /\ input.fn = "diffSandboxStats"
  /\ output = NoCall
  /\ output' = [fn |-> "diffSandboxStats",
                result |-> diffSandboxStatsOf(input.before, input.after)]
  /\ UNCHANGED <<machine, input>>

StatsSpec == StatsInit /\ [][CallDiffSandboxStats]_vars

\* the inner loop of listDiffItems: the items of one leaf manifest
RECURSIVE LeafItems(_, _, _, _)
LeafItems(base, leafId, leafManifest, keys) ==
  IF keys = <<>> THEN <<>>
  ELSE LET filePath == Head(keys)
           change == describeChange(Get(base, filePath), leafManifest[filePath])
           rest == LeafItems(base, leafId, leafManifest, Tail(keys))
       IN IF change = "null" THEN rest
          ELSE <<[leafId |-> leafId, path |-> filePath, change |-> toChangeType(change)]>>
                 \o rest

RECURSIVE ListItemsSkipsDeleted(_, _, _)
ListItemsSkipsDeleted(base, files, leafIds) ==
  IF leafIds = <<>> THEN <<>>
  ELSE LET leafId == Head(leafIds)
       IN SelectSeq(LeafItems(base, leafId, files[leafId], KeySeq(DOMAIN files[leafId])),
                    LAMBDA item : item.change # "deleted")
            \o ListItemsSkipsDeleted(base, files, Tail(leafIds))

\* the outer loop of listDiffItems over cache.listLeafIds()
RECURSIVE ListItems(_, _, _)
ListItems(base, files, leafIds) ==
  IF leafIds = <<>> THEN <<>>
  ELSE LET leafId == Head(leafIds)
       IN LeafItems(base, leafId, files[leafId], KeySeq(DOMAIN files[leafId]))
            \o ListItems(base, files, Tail(leafIds))

\* listDiffItems: base is the tracker's base manifest, files the persisted
\* leaf manifests
listDiffItems(base, files) == ListItems(base, files, KeySeq(DOMAIN files))

\* the entries the tracker writes into a manifest
TrackerEntries ==
  {[exists |-> FALSE]} \cup {SnapshotEntry(readSnapshot(<<b>>, 1)) : b \in Buffers}

DiffManifests == UNION {[S -> TrackerEntries] : S \in SUBSET DiffPaths}

DiffInit ==
  /\ real = [p \in Paths |-> Absent]
  /\ sandbox = [p \in Paths |-> Absent]
  /\ blobs = [h \in {hashBuffer(b) : b \in Buffers} |-> CHOOSE b \in Buffers : hashBuffer(b) = h]
  /\ baseFile \in DiffManifests
  /\ leafFiles \in UNION {[L -> DiffManifests] : L \in SUBSET Leaves}
  /\ baseManifest = baseFile
  /\ trackedManifest = EmptyManifest
  /\ leafCache = [l \in {} |-> EmptyManifest]
  /\ stats = [p \in Paths |-> "none"]
  /\ initialized = TRUE
  /\ currentLeafId = Null
  /\ undoStack = <<>>
  /\ redoStack = <<>>
  /\ navigating = FALSE
  /\ hostLeaf = Null
  /\ nextLeaf = 0
  /\ last = Step("init", Null, <<>>, "none", "none")
  /\ pre = NoSnapshot
  /\ faults = 0
  /\ emittedStats = NoStats
  /\ sandboxState = NoSandboxState
  /\ calls = <<>>
  /\ input = [fn |-> "listDiffItems"]
  /\ output = NoCall

CallListDiffItems ==
  /\ input.fn = "listDiffItems"
  /\ output = NoCall
  /\ output' = [fn |-> "listDiffItems", items |-> listDiffItems(baseManifest, leafFiles)]
  /\ UNCHANGED <<machine, input>>

DiffSpec == DiffInit /\ [][CallListDiffItems]_vars

\* the blob stores: the bytes of some of the buffers under their digests
BlobStores ==
  {[h \in {hashBuffer(b) : b \in S} |-> CHOOSE b \in S : hashBuffer(b) = h] :
     S \in SUBSET Buffers}

\* the manifests applyManifest can be given: some of the paths, each with a
\* FileState
ApplyManifests == UNION {[S -> FileStates] : S \in SUBSET DiffPaths}

\* applyManifest called on a root with any files, a blob store and a manifest
ApplyInit ==
  /\ \E root \in {REAL, SANDBOX}, files \in [DiffPaths -> Buffers \cup {Absent}],
        manifest \in ApplyManifests :
       /\ real = IF root = REAL THEN files ELSE [p \in DiffPaths |-> Absent]
       /\ sandbox = IF root = SANDBOX THEN files ELSE [p \in DiffPaths |-> Absent]
       /\ input = [fn |-> "applyManifest", manifest |-> manifest, root |-> root]
  /\ blobs \in BlobStores
  /\ baseFile = <<>>
  /\ leafFiles = [l \in {} |-> EmptyManifest]
  /\ baseManifest = EmptyManifest
  /\ trackedManifest = EmptyManifest
  /\ leafCache = [l \in {} |-> EmptyManifest]
  /\ stats = [p \in DiffPaths |-> "none"]
  /\ initialized = FALSE
  /\ currentLeafId = Null
  /\ undoStack = <<>>
  /\ redoStack = <<>>
  /\ navigating = FALSE
  /\ hostLeaf = Null
  /\ nextLeaf = 0
  /\ last = Step("init", Null, <<>>, "none", "none")
  /\ pre = NoSnapshot
  /\ faults = 0
  /\ emittedStats = NoStats
  /\ sandboxState = NoSandboxState
  /\ calls = <<>>
  /\ output = NoCall

CallApplyManifest ==
  /\ input.fn = "applyManifest"
  /\ output = NoCall
  /\ LET w == applyManifest(World, input.manifest, input.root, -1).w
     IN /\ SetWorld(w)
        /\ output' = [fn |-> "applyManifest", err |-> w.err]
  /\ UNCHANGED <<last, pre, faults, sandboxState, calls, input>>

ApplySpec == ApplyInit /\ [][CallApplyManifest]_vars

----------------------------------------------------------------------------
(* sandbox.ts with its ignore rules, the marker file and the size and      *)
(* modification time of every file.  Three paths stand for the kinds the   *)
(* code tells apart; a file is a record of its bytes and its mtime; the    *)
(* real working directories are indexed by RealRoots.  stats is the stat   *)
(* map itself: path -> [size, mtimeMs].                                    *)

RealRoots == 1..NumRoots

SandboxPaths == {SourceFile, IgnoredFile, META_FILENAME}

DEFAULT_IGNORES == {IgnoredFile}

NoFile == [exists |-> FALSE]

File(content, mtimeMs) == [exists |-> TRUE, content |-> content, mtimeMs |-> mtimeMs]

Times == 1..NumStats

\* the time of every write the extension makes: no file is younger
Now == NumStats

\* the files a root can hold at the paths that are not the marker
ProjectFiles == {NoFile} \cup {File(c, t) : c \in Buffers, t \in Times}

\* the files written at a path of a root from outside: every file at
\* SourceFile of the first root, one file elsewhere
WrittenFiles(realRoot, p) ==
  IF realRoot = 1 /\ p = SourceFile THEN ProjectFiles ELSE {NoFile, File(1, 1)}

\* fs.stat of a file: size and mtimeMs
StatOf(file) == [size |-> Size(file.content), mtimeMs |-> file.mtimeMs]

shouldIgnore(ignoreMatcher, relativePath) == relativePath \in ignoreMatcher

\* gitignore: the paths the .gitignore of the real root matches
loadIgnoreMatcher(gitignore) == DEFAULT_IGNORES \cup gitignore

\* the realRoot the marker file records, Null without a marker file
readSandboxMeta(sandboxFiles) ==
  IF sandboxFiles[META_FILENAME].exists THEN sandboxFiles[META_FILENAME].content ELSE Null

\* JSON.stringify({ realRoot }) written at META_FILENAME
writeSandboxMeta(sandboxFiles, realRoot, now) ==
  [sandboxFiles EXCEPT ![META_FILENAME] = File(realRoot, now)]

\* prepareSandbox with reuseExisting; cp preserves the timestamps
prepareSandbox(realFiles, sandboxFiles, realRoot, ignoreMatcher, now) ==
  IF readSandboxMeta(sandboxFiles) = realRoot
  THEN [reused |-> TRUE, sandbox |-> sandboxFiles]
  ELSE [reused |-> FALSE,
        sandbox |-> writeSandboxMeta(
                      [p \in SandboxPaths |->
                         IF realFiles[p].exists /\ ~shouldIgnore(ignoreMatcher, p)
                         THEN realFiles[p] ELSE NoFile],
                      realRoot, now)]

scanDirectoryStats(files, ignoreMatcher) ==
  [p \in {q \in SandboxPaths : files[q].exists /\ ~shouldIgnore(ignoreMatcher, q)} |->
     StatOf(files[p])]

StatsDelete(statMap, p) == [q \in DOMAIN statMap \ {p} |-> statMap[q]]

\* updateSandboxStatsForFile that stats the file without asking the matcher
updateSandboxStatsForFileUnfiltered(sandboxFiles, statMap, relativePath, ignoreMatcher) ==
  IF ~sandboxFiles[relativePath].exists THEN StatsDelete(statMap, relativePath)
  ELSE ManifestSet(statMap, relativePath, StatOf(sandboxFiles[relativePath]))

updateSandboxStatsForFile(sandboxFiles, statMap, relativePath, ignoreMatcher) ==
  IF shouldIgnore(ignoreMatcher, relativePath) THEN StatsDelete(statMap, relativePath)
  ELSE IF ~sandboxFiles[relativePath].exists THEN StatsDelete(statMap, relativePath)
  ELSE ManifestSet(statMap, relativePath, StatOf(sandboxFiles[relativePath]))

\* copyFile(sourcePath, targetPath): the bytes of the source, written now
syncFileToSandbox(realFiles, sandboxFiles, relativePath, now) ==
  [sandboxFiles EXCEPT ![relativePath] = File(realFiles[relativePath].content, now)]

removeFileFromSandbox(sandboxFiles, relativePath) ==
  [sandboxFiles EXCEPT ![relativePath] = NoFile]

\* the loops of initialize over diff.added and diff.changed
RECURSIVE SyncLoop(_, _, _, _, _)
SyncLoop(st, realFiles, paths, ignoreMatcher, now) ==
  IF paths = <<>> THEN st
  ELSE LET sb == syncFileToSandbox(realFiles, st.sandbox, Head(paths), now)
       IN SyncLoop([sandbox |-> sb,
                    stats |-> updateSandboxStatsForFile(sb, st.stats, Head(paths),
                                                        ignoreMatcher)],
                   realFiles, Tail(paths), ignoreMatcher, now)

\* the loop of initialize over diff.removed
RECURSIVE RemoveLoop(_, _)
RemoveLoop(st, paths) ==
  IF paths = <<>> THEN st
  ELSE RemoveLoop([sandbox |-> removeFileFromSandbox(st.sandbox, Head(paths)),
                   stats |-> StatsDelete(st.stats, Head(paths))],
                  Tail(paths))

\* ensureSandboxFile that copies whenever the real root has the file
ensureSandboxFileAlways(realFiles, sandboxFiles, relativePath, now) ==
  IF ~realFiles[relativePath].exists THEN sandboxFiles
  ELSE [sandboxFiles EXCEPT ![relativePath] = File(realFiles[relativePath].content, now)]

\* ensureSandboxFile of sandbox.ts on the files themselves
ensureSandboxFileOf(realFiles, sandboxFiles, relativePath, now) ==
  IF sandboxFiles[relativePath].exists THEN sandboxFiles
  ELSE IF ~realFiles[relativePath].exists THEN sandboxFiles
  ELSE [sandboxFiles EXCEPT ![relativePath] = File(realFiles[relativePath].content, now)]

\* SandboxState.initialize
initialize(realFiles, sandboxFiles, realRoot, gitignore, now) ==
  LET ignoreMatcher == loadIgnoreMatcher(gitignore)
      prepared == prepareSandbox(realFiles, sandboxFiles, realRoot, ignoreMatcher, now)
      sandboxStats == scanDirectoryStats(prepared.sandbox, ignoreMatcher)
      realStats == scanDirectoryStats(realFiles, ignoreMatcher)
      diff == diffSandboxStatsOf(sandboxStats, realStats)
      synced == SyncLoop(SyncLoop([sandbox |-> prepared.sandbox, stats |-> sandboxStats],
                                  realFiles, diff.added, ignoreMatcher, now),
                         realFiles, diff.changed, ignoreMatcher, now)
      done == RemoveLoop(synced, diff.removed)
  IN IF ~prepared.reused
     THEN [sandbox |-> prepared.sandbox, stats |-> sandboxStats,
           ignoreMatcher |-> ignoreMatcher, reused |-> FALSE]
     ELSE [sandbox |-> done.sandbox, stats |-> done.stats,
           ignoreMatcher |-> ignoreMatcher, reused |-> TRUE]

\* no SandboxState yet; the real working directories and the sandbox root
\* are empty
SandboxInit ==
  /\ real = [r \in RealRoots |-> [p \in SandboxPaths |-> NoFile]]
  /\ sandbox = [p \in SandboxPaths |-> NoFile]
  /\ stats = [p \in {} |-> 0]
  /\ sandboxState = NoSandboxState
  /\ calls = <<>>
  /\ blobs = [h \in {} |-> 0]
  /\ baseFile = <<>>
  /\ leafFiles = [l \in {} |-> EmptyManifest]
  /\ baseManifest = EmptyManifest
  /\ trackedManifest = EmptyManifest
  /\ leafCache = [l \in {} |-> EmptyManifest]
  /\ initialized = FALSE
  /\ currentLeafId = Null
  /\ undoStack = <<>>
  /\ redoStack = <<>>
  /\ navigating = FALSE
  /\ hostLeaf = Null
  /\ nextLeaf = 0
  /\ last = [op |-> "init", path |-> Null, reused |-> FALSE]
  /\ pre = NoSnapshot
  /\ faults = 0
  /\ emittedStats = NoStats
  /\ input = NoCall
  /\ output = NoCall

SandboxFrame ==
  UNCHANGED <<blobs, baseFile, leafFiles, baseManifest, trackedManifest, leafCache,
              initialized, currentLeafId, undoStack, redoStack, navigating, hostLeaf,
              nextLeaf, pre, faults, emittedStats, calls, input, output>>

\* something outside the extension writes or removes a file of a real root
RealWrite(realRoot, p, file) ==
  /\ real[realRoot][p] # file
  /\ real' = [real EXCEPT ![realRoot][p] = file]
  /\ last' = [op |-> "realWrite", path |-> Null, reused |-> FALSE]
  /\ UNCHANGED <<sandbox, stats, sandboxState>>
  /\ SandboxFrame

\* new SandboxState(realRoot, sandboxRoot) and initialize(), of a session
\* whose working directory is realRoot
Initialize(realRoot, gitignore) ==
  /\ LET r == initialize(real[realRoot], sandbox, realRoot, gitignore, Now)
     IN /\ sandbox' = r.sandbox
        /\ stats' = r.stats
        /\ sandboxState' = [realRoot |-> realRoot, ignoreMatcher |-> r.ignoreMatcher]
        /\ last' = [op |-> "initialize", path |-> Null, reused |-> r.reused]
  /\ UNCHANGED real
  /\ SandboxFrame

\* a tool writes or removes a file of the sandbox
SandboxWrite(p, file) ==
  /\ sandboxState # NoSandboxState
  /\ sandbox[p] # file
  /\ sandbox' = [sandbox EXCEPT ![p] = file]
  /\ last' = [op |-> "sandboxWrite", path |-> Null, reused |-> FALSE]
  /\ UNCHANGED <<real, stats, sandboxState>>
  /\ SandboxFrame

CallEnsureSandboxFile(p) ==
  /\ sandboxState # NoSandboxState
  /\ sandbox' = ensureSandboxFileOf(real[sandboxState.realRoot], sandbox, p, Now)
  /\ last' = [op |-> "ensureSandboxFile", path |-> p, reused |-> FALSE]
  /\ UNCHANGED <<real, stats, sandboxState>>
  /\ SandboxFrame

\* sandboxState.updateFile(relativePath)
CallUpdateFile(p) ==
  /\ sandboxState # NoSandboxState
  /\ stats' = updateSandboxStatsForFile(sandbox, stats, p, sandboxState.ignoreMatcher)
  /\ last' = [op |-> "updateFile", path |-> p, reused |-> FALSE]
  /\ UNCHANGED <<real, sandbox, sandboxState>>
  /\ SandboxFrame

\* sandboxState.setStats(await sandboxState.rescan())
CallRescan ==
  /\ sandboxState # NoSandboxState
  /\ stats' = scanDirectoryStats(sandbox, sandboxState.ignoreMatcher)
  /\ last' = [op |-> "rescan", path |-> Null, reused |-> FALSE]
  /\ UNCHANGED <<real, sandbox, sandboxState>>
  /\ SandboxFrame

\* the paths a project or a tool writes: every path but the marker
ProjectPaths == {SourceFile, IgnoredFile}

SandboxNext ==
  \/ \E r \in RealRoots, p \in ProjectPaths : \E file \in WrittenFiles(r, p) :
       RealWrite(r, p, file)
  \/ \E r \in RealRoots, gitignore \in SUBSET {SourceFile} : Initialize(r, gitignore)
  \/ \E p \in ProjectPaths : \E file \in WrittenFiles(1, p) : SandboxWrite(p, file)
  \/ \E p \in SandboxPaths : CallEnsureSandboxFile(p)
  \/ \E p \in SandboxPaths : CallUpdateFile(p)
  \/ CallRescan

SandboxSpec == SandboxInit /\ [][SandboxNext]_vars

----------------------------------------------------------------------------
(* Properties of the tracker (TrackerSpec) *)

\* the file at p holds what entry records: no file for exists:false, else
\* the bytes whose digest is entry.hash
Holds(files, p, entry) ==
  IF entry.exists THEN files[p] # Absent /\ hashBuffer(files[p]) = entry.hash
  ELSE files[p] = Absent

\* C1: round-trip law.  When saveLeaf(id) completes and the next step is a
\* restoreLeaf(id, roots) that completes, every root of the restore holds,
\* for every path of the tracked manifest at save time, the bytes that
\* manifest records (no file for exists:false), whatever it held before.
C1_RoundTrip ==
  [][(/\ last.op = "saveLeaf" /\ last.id # Null /\ last.err = "none"
      /\ last'.op = "restoreLeaf" /\ last'.id = last.id /\ last'.err = "none")
     => \A p \in DOMAIN trackedManifest : \A i \in 1..Len(last'.roots) :
          Holds(IF last'.roots[i] = REAL THEN real' ELSE sandbox', p,
                trackedManifest[p])]_vars

\* a save and restore of a leaf whose tracked entry differs from base, into
\* both roots
C1_Witness ==
  /\ last.op = "restoreLeaf" /\ last.after = "saveLeaf" /\ last.err = "none"
  /\ last.id # Null /\ last.roots = <<SANDBOX, REAL>>
  /\ \E p \in DOMAIN leafCache[last.id] :
       /\ p \in DOMAIN baseManifest
       /\ leafCache[last.id][p] # baseManifest[p]
       /\ leafCache[last.id][p].exists

\* C7: restoreLeaf is idempotent.  When restoreLeaf(id, roots) completes and
\* the next step is the same call and completes, that second call changes no
\* file of either root and leaves the tracked manifest as it is.
C7_Idempotent ==
  [][(/\ last.op = "restoreLeaf" /\ last.err = "none"
      /\ last'.op = "restoreLeaf" /\ last'.id = last.id /\ last'.roots = last.roots
      /\ last'.err = "none")
     => /\ real' = real
        /\ sandbox' = sandbox
        /\ trackedManifest' = trackedManifest]_vars

\* a second restore of a leaf that has a manifest with a file
C7_Witness ==
  /\ last.op = "restoreLeaf" /\ last.after = "restoreLeaf" /\ last.err = "none"
  /\ last.id # Null
  /\ HasLeaf(World, last.id)
  /\ \E p \in DOMAIN loadLeaf(World, last.id) : loadLeaf(World, last.id)[p].exists

\* C9: the base manifest only grows.  No step of the tracker removes an entry
\* of the base manifest or changes its FileState.
C9_BaseGrows ==
  [][\A p \in DOMAIN baseManifest :
       p \in DOMAIN baseManifest' /\ baseManifest'[p] = baseManifest[p]]_vars

\* ensureBase completed on a path whose base entry is not the file's state:
\* the entry was there before and was kept
C9_Witness ==
  /\ last.op \in {"ensureBaseFromSandbox", "ensureBaseFromDisk"} /\ last.err = "none"
  /\ \E p \in DOMAIN baseManifest :
       baseManifest[p] #
         SnapshotEntry(readSnapshot(IF last.op = "ensureBaseFromSandbox" THEN sandbox ELSE real, p))

\* every manifest the tracker holds or has persisted
Manifests ==
  {baseManifest, trackedManifest}
  \cup {baseFile[i] : i \in DOMAIN baseFile}
  \cup {leafCache[l] : l \in DOMAIN leafCache}
  \cup {leafFiles[l] : l \in DOMAIN leafFiles}

\* C13: saveLeaf(id) is a full overwrite.  When it completes for a non-null
\* id, the cached manifest and the persisted manifest of that id both equal
\* the tracked manifest as it was at the call: nothing of an earlier save of
\* the id survives.  saveLeaf(null) changes no state.
C13_FullOverwrite ==
  [][(last'.op = "saveLeaf" /\ last'.err = "none") =>
       IF last'.id = Null
       THEN UNCHANGED <<real, sandbox, blobs, baseFile, leafFiles, baseManifest,
                        trackedManifest, leafCache>>
       ELSE /\ last'.id \in DOMAIN leafCache' /\ leafCache'[last'.id] = trackedManifest
            /\ last'.id \in DOMAIN leafFiles' /\ leafFiles'[last'.id] = trackedManifest
            /\ trackedManifest' = trackedManifest]_vars

\* a leaf id was saved again after the tracked manifest lost a path that the
\* earlier save of the id held
C13_Witness ==
  /\ last.op = "saveLeaf" /\ last.err = "none" /\ last.after = "shrinks"
  /\ last.id # Null
  /\ leafFiles[last.id] = trackedManifest

\* C14: the blob store is content-addressed and deduplicated.  It holds at
\* most one blob for a content: the same bytes recorded for two paths, or for
\* one path in several leaves, are stored once, under their hash.  A second
\* write of a hash the store holds leaves the stored blob as it is.
C14_Dedup ==
  [][/\ \A h \in DOMAIN blobs : h \in DOMAIN blobs' /\ blobs'[h] = blobs[h]
     /\ \A h1, h2 \in DOMAIN blobs' : blobs'[h1] = blobs'[h2] => h1 = h2
     /\ \A h \in DOMAIN blobs' : h = hashBuffer(blobs'[h])]_vars

\* the same bytes were recorded for two paths and saved in two leaves, and
\* the store holds one blob
C14_Witness ==
  /\ last.op = "saveLeaf"
  /\ Cardinality(DOMAIN blobs) = 1
  /\ Cardinality(DOMAIN leafFiles) = 2
  /\ \E p, q \in DOMAIN trackedManifest :
       /\ p # q
       /\ trackedManifest[p].exists /\ trackedManifest[q].exists
       /\ trackedManifest[p].hash = trackedManifest[q].hash
       /\ \A l \in DOMAIN leafFiles :
            p \in DOMAIN leafFiles[l] /\ leafFiles[l][p] = trackedManifest[p]

\* C19: every hash that an exists:true entry of a manifest refers to (base,
\* tracked, cached leaf, persisted leaf or base) is the name of a blob in the
\* store, after any sequence of tracker operations; no restore fails for a
\* missing blob.
C19_BlobsPresent ==
  /\ \A m \in Manifests : \A p \in DOMAIN m : m[p].exists => m[p].hash \in DOMAIN blobs
  /\ last.err # "readBlob"

\* a leaf that records a file was restored while the store holds every content
C19_Witness ==
  /\ last.op = "restoreLeaf" /\ last.err = "none" /\ last.id # Null
  /\ last.id \in DOMAIN leafFiles
  /\ \E p \in DOMAIN leafFiles[last.id] :
       /\ leafFiles[last.id][p].exists
       /\ p \in DOMAIN baseManifest /\ baseManifest[p].exists
       /\ baseManifest[p].hash # leafFiles[last.id][p].hash
  /\ Cardinality(DOMAIN blobs) = NumContents

\* C20: the shape of an entry.  In every entry the tracker produces,
\* exists:false comes with no hash, size or binary, and exists:true comes
\* with a hash and a size.
C20_EntryShape ==
  \A m \in Manifests : \A p \in DOMAIN m :
    IF m[p].exists THEN {"hash", "size"} \subseteq DOMAIN m[p]
    ELSE DOMAIN m[p] = {"exists"}

\* a path that was recorded with a hash was marked deleted
C20_Witness ==
  /\ last.op = "markDeleted"
  /\ \E p \in DOMAIN trackedManifest :
       /\ ~trackedManifest[p].exists
       /\ p \in DOMAIN baseManifest /\ baseManifest[p].exists
       /\ \E l \in DOMAIN leafFiles : p \in DOMAIN leafFiles[l] /\ leafFiles[l][p].exists

\* the sum of the sizes the entries of S record in a manifest
RECURSIVE SumOfSizes(_, _)
SumOfSizes(manifest, S) ==
  IF S = {} THEN 0
  ELSE LET p == CHOOSE x \in S : TRUE
       IN manifest[p].size + SumOfSizes(manifest, S \ {p})

\* C22: restoreLeaf adopts the effective manifest only after it was applied
\* to every root.  A restoreLeaf that ends in an error leaves the tracked
\* manifest and the emitted stats as they were, and repairs nothing: the
\* blob store, the manifests of the store and the base manifest are as
\* before, and the error is the outcome of the call.
C22_TrackedAfterApply ==
  [][(last'.op = "restoreLeaf" /\ last'.err # "none")
     => /\ trackedManifest' = trackedManifest
        /\ emittedStats' = emittedStats
        /\ blobs' = blobs
        /\ leafFiles' = leafFiles
        /\ baseFile' = baseFile
        /\ baseManifest' = baseManifest]_vars

\* a restore into both roots failed after the sandbox was written: the
\* sandbox holds the effective manifest of the leaf, the real root does not,
\* and the tracked manifest is still another one
C22_Witness ==
  /\ last.op = "restoreLeaf" /\ last.err # "none"
  /\ last.roots = <<SANDBOX, REAL>>
  /\ last.id # Null /\ HasLeaf(World, last.id)
  /\ trackedManifest # EffectiveManifest(World, last.id)
  /\ emittedStats # NoStats
  /\ \E p \in DOMAIN EffectiveManifest(World, last.id) :
       /\ Holds(sandbox, p, EffectiveManifest(World, last.id)[p])
       /\ ~Holds(real, p, EffectiveManifest(World, last.id)[p])
       /\ p \in DOMAIN trackedManifest
       /\ ~Holds(sandbox, p, trackedManifest[p])

\* C26: after a completed updateFromSandbox, markDeleted or restoreLeaf (of
\* the base or of a leaf that has a manifest) the stats last emitted are
\* those of the tracked manifest: fileCount is the number of tracked paths
\* with exists:true and totalBytes is the sum of the sizes they record.
C26_EmittedStats ==
  [][(/\ last'.op \in {"updateFromSandbox", "markDeleted", "restoreLeaf"}
      /\ last'.err = "none"
      /\ last'.op = "restoreLeaf"
           => last'.id = Null \/ last'.id \in DOMAIN leafCache' \cup DOMAIN leafFiles')
     => LET present == {p \in DOMAIN trackedManifest' : trackedManifest'[p].exists}
        IN /\ emittedStats' # NoStats
           /\ emittedStats'.fileCount = Cardinality(present)
           /\ emittedStats'.totalBytes = SumOfSizes(trackedManifest', present)]_vars

\* a path was marked deleted while another tracked path holds a file: the
\* stats emitted count that file alone
C26_Witness ==
  /\ last.op = "markDeleted"
  /\ \E p, q \in DOMAIN trackedManifest :
       /\ ~trackedManifest[p].exists
       /\ trackedManifest[q].exists
       /\ emittedStats = [fileCount |-> 1, totalBytes |-> trackedManifest[q].size]

----------------------------------------------------------------------------
(* Properties of navigation (NavSpec) *)

Commands == {"undo", "redo"}

ToolActions == {"tool.undo", "tool.redo"}

\* the manifest loadLeaf returns for leafId from a cache and a store; the
\* empty manifest when it has none
SavedManifest(cache, store, leafId) ==
  IF leafId \in DOMAIN cache THEN cache[leafId]
  ELSE IF leafId \in DOMAIN store THEN store[leafId]
  ELSE EmptyManifest

\* m is base overlaid by leaf
IsOverlay(m, base, leaf) ==
  /\ DOMAIN m = (DOMAIN base) \cup (DOMAIN leaf)
  /\ \A p \in DOMAIN m : m[p] = IF p \in DOMAIN leaf THEN leaf[p] ELSE base[p]

\* both roots hold the state m records, for every path of m
BothHold(sb, rl, m) ==
  \A p \in DOMAIN m : Holds(sb, p, m[p]) /\ Holds(rl, p, m[p])

\* C2: a /undo or /redo command whose navigation does not succeed leaves
\* undoStack, redoStack and currentLeafId as they were before the command,
\* that is before the pop and the push of its handler.
C2_FailedCommandNoOp ==
  [][(last'.op \in Commands /\ last'.err \in {"unavailable", "throws", "cancelled"})
     => UNCHANGED <<undoStack, redoStack, currentLeafId>>]_vars

\* the state after a completed navigation to the leaf currentLeafId is the
\* one its saved manifest gives
RestoredTo(leaf) ==
  /\ IsOverlay(trackedManifest, baseManifest, leaf)
  /\ BothHold(sandbox, real, trackedManifest)

IsNavigation ==
  last.op \in {"session_tree"} \cup Commands \cup ToolActions /\ last.err = "none"

\* C3 as stated: after any navigation to a leaf X the tracked manifest is
\* base overlaid by X's saved manifest (base alone when X is null) and both
\* roots hold it.
C3_Original ==
  IsNavigation =>
    RestoredTo(IF currentLeafId = Null THEN EmptyManifest
               ELSE SavedManifest(leafCache, leafFiles, currentLeafId))

\* C3 amended: after any navigation to a leaf X that is null or has a saved
\* manifest, the tracked manifest is base overlaid by X's saved manifest
\* (base alone when X is null) and both roots hold it.
C3_Amended ==
  (IsNavigation /\ (currentLeafId = Null \/ HasLeaf(World, currentLeafId)))
    => RestoredTo(IF currentLeafId = Null THEN EmptyManifest
                  ELSE SavedManifest(leafCache, leafFiles, currentLeafId))

\* a navigation to a saved leaf whose manifest differs from base
C3_Witness ==
  /\ IsNavigation
  /\ currentLeafId # Null /\ HasLeaf(World, currentLeafId)
  /\ \E p \in DOMAIN loadLeaf(World, currentLeafId) :
       /\ p \in DOMAIN baseManifest
       /\ loadLeaf(World, currentLeafId)[p] # baseManifest[p]

\* C4: on every navigation that changes the current leaf, the outgoing leaf
\* is saved before the incoming one is restored: after the navigation the
\* saved manifest of the outgoing leaf has every entry the tracked manifest
\* had before it.
C4_SaveBeforeRestore ==
  [][(/\ last'.op \in {"session_tree"} \cup Commands \cup ToolActions
      /\ last'.err = "none"
      /\ currentLeafId # Null /\ currentLeafId = hostLeaf
      /\ currentLeafId' # currentLeafId)
     => \A p \in DOMAIN trackedManifest :
          LET saved == SavedManifest(leafCache', leafFiles', currentLeafId)
          IN p \in DOMAIN saved /\ saved[p] = trackedManifest[p]]_vars

IsUndo(l) == l.op \in {"undo", "tool.undo"} /\ l.err = "none"

IsRedo(l) == l.op \in {"redo", "tool.redo"} /\ l.err = "none"

\* C5: undo and redo are inverses.  A successful undo immediately followed
\* by a successful redo, or a redo by an undo, returns currentLeafId,
\* undoStack and redoStack to their values before the first of the two.
C5_Inverses ==
  [][((IsUndo(last) /\ IsRedo(last')) \/ (IsRedo(last) /\ IsUndo(last')))
     => [currentLeafId |-> currentLeafId', undoStack |-> undoStack',
         redoStack |-> redoStack'] = pre]_vars

\* the same law for a pair that starts from a non-null current leaf
C5_NonNull ==
  [][(/\ (IsUndo(last) /\ IsRedo(last')) \/ (IsRedo(last) /\ IsUndo(last'))
      /\ pre.currentLeafId # Null)
     => [currentLeafId |-> currentLeafId', undoStack |-> undoStack',
         redoStack |-> redoStack'] = pre]_vars

\* the state a failed undo or redo action of the tool leaves: the stacks as
\* before, the current leaf the one the action started from (the leaf of
\* the session manager), and both roots holding that leaf's state
RolledBack ==
  /\ undoStack' = undoStack
  /\ redoStack' = redoStack
  /\ currentLeafId' = hostLeaf
  /\ LET leaf == SavedManifest(leafCache', leafFiles', hostLeaf)
     IN /\ IsOverlay(trackedManifest', baseManifest', leaf)
        /\ BothHold(sandbox', real', trackedManifest')

C24_NothingToRestore ==
  [][(/\ last'.op \in Commands \cup ToolActions
      /\ LET stack == IF last'.op \in {"undo", "tool.undo"} THEN undoStack ELSE redoStack
         IN /\ stack # <<>>
            /\ Top(stack) \notin DOMAIN leafCache' \cup DOMAIN leafFiles')
     => last'.err # "none"]_vars

\* C25: for every id in the leaf cache the cached manifest is the persisted
\* manifest of the id, in every state between two handlers (no saveLeaf is
\* in flight there).
C25_CacheIsPersisted ==
  \A id \in DOMAIN leafCache :
    id \in DOMAIN leafFiles /\ leafCache[id] = leafFiles[id]

\* C33: whenever no /undo or /redo command is in progress the navigating
\* flag is false.  No handler ends with the flag set, and the session_tree
\* event that follows a command, however the command ended, pushes its old
\* leaf onto the undo stack when that leaf is non-null and not the new leaf.
C33_FlagClearedAfterCommand ==
  [][/\ navigating' = FALSE
     /\ (last.op \in Commands /\ last'.op = "session_tree" /\ hostLeaf # Null)
          => undoStack' = Push(undoStack, hostLeaf)]_vars

\* the stacks as /undo or /redo leaves them before it navigates: the target
\* popped, the leaf it started from pushed on the other stack when non-null
StacksOfCommand(op) ==
  LET pushed(stack) == IF currentLeafId # Null THEN Push(stack, currentLeafId)
                       ELSE stack
  IN IF op = "undo"
     THEN [undoStack |-> Pop(undoStack), redoStack |-> pushed(redoStack)]
     ELSE [undoStack |-> pushed(undoStack), redoStack |-> Pop(redoStack)]

\* C34: a session_tree event that finds the navigating flag false, with a
\* non-null old leaf other than the new leaf, pushes the old leaf onto the
\* undo stack once and leaves the redo stack as it was; a session_tree event
\* that /undo or /redo initiated changes neither stack (they stay as the
\* command set them); in both cases currentLeafId is the new leaf when the
\* handler is left (the catch block of a command whose navigateTree throws
\* sets it back afterwards).
C34_SessionTreeStacks ==
  [][/\ (last'.op = "session_tree" /\ ~navigating /\ hostLeaf # Null)
          => /\ undoStack' = Push(undoStack, hostLeaf)
             /\ redoStack' = redoStack
     /\ last'.op = "session_tree" => currentLeafId' = hostLeaf'
     /\ (last'.op \in Commands /\ hostLeaf' # hostLeaf)
          => /\ undoStack' = StacksOfCommand(last'.op).undoStack
             /\ redoStack' = StacksOfCommand(last'.op).redoStack
             /\ last'.err # "throws" => currentLeafId' = hostLeaf']_vars

\* a session_tree event outside a command has pushed the leaf it left, with
\* a leaf on the redo stack
C34_Witness ==
  /\ last.op = "session_tree"
  /\ undoStack # <<>> /\ Top(undoStack) # hostLeaf
  /\ redoStack # <<>>
  /\ currentLeafId = hostLeaf

\* C35: a non-tool-call turn_end that finds a non-null host leaf other than
\* currentLeafId pushes the previous current leaf, when non-null, onto the
\* undo stack once and makes the host leaf the current leaf; no turn_end
\* changes the redo stack.
C35_TurnEndPushes ==
  [][/\ (last'.op = "turn_end" /\ hostLeaf # Null /\ hostLeaf # currentLeafId)
          => /\ undoStack' = IF currentLeafId # Null
                             THEN Push(undoStack, currentLeafId) ELSE undoStack
             /\ currentLeafId' = hostLeaf
     /\ last'.op \in {"turn_end", "turn_end.toolCall"} => redoStack' = redoStack]_vars

\* a turn_end has moved the session to a new leaf and pushed the leaf before
C35_Witness ==
  /\ last.op = "turn_end"
  /\ undoStack # <<>> /\ Top(undoStack) # Null /\ Top(undoStack) # currentLeafId
  /\ currentLeafId = hostLeaf
  /\ HasLeaf(World, currentLeafId)

\* the stack an undo or redo pops is empty
NoHistory(op) ==
  \/ op \in {"undo", "tool.undo"} /\ undoStack = <<>>
  \/ op \in {"redo", "tool.redo"} /\ redoStack = <<>>

\* C36: undo with an empty undo stack and redo with an empty redo stack,
\* through the command or through the undo_redo tool, answer with the
\* no-history message and change nothing: the stacks, the tracked, base and
\* leaf manifests and the files of both roots are as before, and the host is
\* not asked to navigate.
C36_NoHistoryNoChange ==
  [][(last'.op \in Commands \cup ToolActions /\ NoHistory(last'.op))
     => /\ last'.err = "noHistory"
        /\ UNCHANGED <<undoStack, redoStack, trackedManifest, baseManifest, baseFile,
                       leafCache, leafFiles, blobs, real, sandbox, hostLeaf,
                       navigating>>]_vars

\* an undo or redo has found its stack empty in a session with a tracked
\* file and a saved leaf
C36_Witness ==
  /\ last.op \in Commands \cup ToolActions /\ last.err = "noHistory"
  /\ \E p \in DOMAIN trackedManifest : trackedManifest[p].exists
  /\ hostLeaf # Null /\ HasLeaf(World, hostLeaf)

\* C37: after each handled event that changes the leaf (a non-tool-call
\* turn_end with a non-null host leaf, a session_tree event, one that /undo
\* or /redo initiated included, a successful undo or redo action of the
\* undo_redo tool), currentLeafId is the leaf of the host's session.
C37_CurrentLeafIsHostLeaf ==
  (\/ last.op = "turn_end" /\ hostLeaf # Null
   \/ last.op = "session_tree"
   \/ last.op \in Commands /\ last.err \in {"none", "handlerFailed"}
   \/ last.op \in ToolActions /\ last.err = "none")
  => currentLeafId = hostLeaf

\* an undo or redo action of the tool has moved the session to another leaf
C37_Witness ==
  /\ last.op \in ToolActions /\ last.err = "none"
  /\ hostLeaf # Null /\ currentLeafId = hostLeaf
  /\ pre.currentLeafId # currentLeafId

\* the last call of saveLeaf for its leaf
LastSave(i) ==
  /\ calls[i].fn = "saveLeaf"
  /\ \A j \in (i + 1)..Len(calls) :
       ~(calls[j].fn = "saveLeaf" /\ calls[j].leafId = calls[i].leafId)

\* C38: saveLeaf(id) captures the tracked manifest of the moment it is
\* called: whatever updateFromSandbox, markDeleted or restoreLeaf does while
\* the leaf write is in flight, the manifest cached for id stays that copy
\* and the manifest persisted for id, once the write has landed, is that
\* copy.
C38_SaveCapturesAtCall ==
  \A i \in 1..Len(calls) :
    LastSave(i)
    => /\ calls[i].leafId \in DOMAIN leafCache
       /\ leafCache[calls[i].leafId] = calls[i].snapshot
       /\ calls[i].stage = "done"
            => /\ calls[i].leafId \in DOMAIN leafFiles
               /\ leafFiles[calls[i].leafId] = calls[i].snapshot

\* a leaf write has landed after the tracked manifest had moved on from the
\* copy the save was called with
C38_Witness ==
  /\ last.op = "saveLeaf.return"
  /\ \E i \in 1..Len(calls) :
       /\ LastSave(i) /\ calls[i].stage = "done" /\ calls[i].leafId = last.id
       /\ trackedManifest # calls[i].snapshot
       /\ leafFiles[calls[i].leafId] = calls[i].snapshot
       /\ \E p \in DOMAIN calls[i].snapshot : calls[i].snapshot[p].exists

\* C39: when two ensureBase calls for the same path, not recorded yet,
\* overlap (the second is made before the first has recorded its entry) the
\* base entry kept, once both have recorded theirs, is the state the first
\* call read.
C39_FirstReadKept ==
  \A j \in 1..Len(calls) :
    (calls[j].fn = "ensureBase" /\ calls[j].stage \in {"writing", "done"})
    => \A i \in calls[j].concurrent :
         calls[i].stage \in {"writing", "done"}
         => baseManifest[calls[j].path] = SnapshotEntry(calls[i].snapshot)

----------------------------------------------------------------------------
(* Properties of the buffered tools (ToolSpec) *)

WritingTools == {"edit", "write", "bash"}

\* C8: for every path first touched by an edit, write or bash tool call, the
\* base entry recorded for it is the state the file had in the real working
\* directory immediately before the call, also when the file is in the real
\* root and not in the sandbox.
C8_BaseIsRealBefore ==
  [][last'.op \in WritingTools
     => \A p \in (DOMAIN baseManifest') \ (DOMAIN baseManifest) :
          baseManifest'[p] = SnapshotEntry(readSnapshot(real, p))]_vars

\* C10: a failure of ensureBase or updateFromSandbox never aborts a read,
\* edit, write or bash tool call: the call does not end with that error.
C10_TrackingNeverAborts ==
  last.op \in {"read"} \cup WritingTools
    => last.err \notin {"ensureBase", "updateFromSandbox"}

----------------------------------------------------------------------------
(* Properties of sessions (SessionSpec, ResumeSpec) and of the bash tool   *)
(* (ToolSpec)                                                              *)

\* C11: after /undo-redo-clear-cache succeeds, and after every session_start,
\* session_switch or session_fork, the undo stack and the redo stack are
\* empty, so /undo and /redo find no history; after clear-cache the base
\* manifest is empty too.
C11_HistoryReset ==
  (last.op \in {"session_start", "clear-cache"} /\ last.err = "none") =>
    /\ undoStack = <<>>
    /\ redoStack = <<>>
    /\ last.op = "clear-cache" => baseManifest = EmptyManifest

\* the cache was cleared in a session that had history and a file on record,
\* and the session is on a leaf
C11_Witness ==
  /\ last.op = "clear-cache" /\ last.err = "none"
  /\ pre.undoStack # <<>>
  /\ currentLeafId # Null
  /\ \E p \in Paths : real[p] # Absent

\* C12: after a bash call, whether it returns or throws, every file the
\* command added or changed in the sandbox is in the tracked manifest with
\* the hash of its new bytes and is copied to the real root, and every file
\* the command removed is exists:false in the tracked manifest and is gone
\* from the real root.
C12_BashTracksAll ==
  [][last'.op = "bash" =>
       \A p \in Paths :
         sandbox'[p] # sandbox[p] =>
           /\ p \in DOMAIN trackedManifest'
           /\ IF sandbox'[p] = Absent
              THEN ~trackedManifest'[p].exists /\ real'[p] = Absent
              ELSE /\ trackedManifest'[p].exists
                   /\ trackedManifest'[p].hash = hashBuffer(sandbox'[p])
                   /\ real'[p] = sandbox'[p]]_vars

\* C18: every path of the tracked manifest is a path of the base manifest,
\* after any sequence of tool calls, saves and restores, a tool call that
\* throws and a session that is resumed from its cache included.
C18_TrackedWithinBase ==
  DOMAIN trackedManifest \subseteq DOMAIN baseManifest

\* C31: with no write from outside after the session started, after every
\* completed tool call and every completed restore (session_tree, /undo,
\* /redo, an action of the undo_redo tool) the sandbox and the real root both
\* hold what the tracked manifest records, for every path of it.
C31_RootsAgreeWithTracked ==
  [][(/\ last'.op \in {"read", "edit", "write", "bash", "session_tree"}
                        \cup Commands \cup ToolActions
      /\ last'.err = "none")
     => BothHold(sandbox', real', trackedManifest')]_vars

\* C32: every leaf id on the undo stack or on the redo stack has a saved
\* leaf manifest, in the cache or in the store, after any sequence of
\* turn_end events, session_tree events, commands and tool calls.
C32_StackedLeavesSaved ==
  \A i \in 1..Len(undoStack \o redoStack) : HasLeaf(World, (undoStack \o redoStack)[i])

\* C27: after a handled turn_end of a turn that is not a tool-call turn, if
\* the current leaf is non-null, the persisted manifest of the current leaf
\* is the tracked manifest; a turn_end of a tool-call turn persists and
\* caches nothing and leaves currentLeafId and both stacks as they were.
C27_TurnEndSaves ==
  [][/\ (last'.op = "turn_end" /\ last'.err = "none" /\ currentLeafId' # Null)
          => /\ currentLeafId' \in DOMAIN leafFiles'
             /\ leafFiles'[currentLeafId'] = trackedManifest'
     /\ last'.op = "turn_end.toolCall"
          => UNCHANGED <<leafFiles, leafCache, baseFile, blobs, currentLeafId,
                         undoStack, redoStack>>]_vars

\* a turn_end moved the session to a new leaf and saved a tracked file under
\* it, the leaf saved before holding another state of the path
C27_Witness ==
  /\ last.op = "turn_end" /\ last.err = "none"
  /\ currentLeafId # Null /\ undoStack # <<>>
  /\ \E p \in DOMAIN trackedManifest :
       /\ trackedManifest[p].exists
       /\ \E l \in DOMAIN leafFiles :
            l # currentLeafId /\ p \in DOMAIN leafFiles[l]
              /\ leafFiles[l][p] # trackedManifest[p]

----------------------------------------------------------------------------
(* Properties of the diff helpers (ClassifySpec, StatsSpec, DiffSpec) *)

Range(seq) == {seq[i] : i \in 1..Len(seq)}

\* C15: describeChange classifies every pair of entries, each of them absent,
\* exists:false or exists:true: no change when neither exists, added when
\* only the leaf entry exists, deleted when only the base entry exists,
\* modified when both exist with different hashes, no change when both exist
\* with the same hash.  Two entries of equal existence and equal hash are
\* never reported as a change.
C15_Classification ==
  output.fn = "describeChange" =>
    LET baseExists == ExistsOf(input.baseEntry)
        leafExists == ExistsOf(input.leafEntry)
        sameHash == HashOf(input.baseEntry) = HashOf(input.leafEntry)
    IN /\ output.change \in {"A", "M", "D", "null"}
       /\ (~baseExists /\ ~leafExists) => output.change = "null"
       /\ (~baseExists /\ leafExists) => output.change = "A"
       /\ (baseExists /\ ~leafExists) => output.change = "D"
       /\ (baseExists /\ leafExists /\ ~sameHash) => output.change = "M"
       /\ (baseExists /\ leafExists /\ sameHash) => output.change = "null"
       /\ (baseExists = leafExists /\ sameHash) => output.change = "null"

\* two entries that exist with the same hash and differ in another field were
\* compared
C15_Witness ==
  /\ output.fn = "describeChange"
  /\ ExistsOf(input.baseEntry) /\ ExistsOf(input.leafEntry)
  /\ "hash" \in DOMAIN input.baseEntry
  /\ HashOf(input.baseEntry) = HashOf(input.leafEntry)
  /\ input.baseEntry # input.leafEntry
  /\ output.change = "null"

\* C16: diffSandboxStats(before, after) puts every path of either map in
\* exactly one of four classes: added (only in after), removed (only in
\* before), changed (in both, size or mtime differ), or none of the lists
\* (in both, size and mtime equal).  The three lists are pairwise disjoint
\* and hold no path twice.
C16_Partition ==
  output.fn = "diffSandboxStats" =>
    LET before == input.before
        after == input.after
        added == Range(output.result.added)
        removed == Range(output.result.removed)
        changed == Range(output.result.changed)
        both == DOMAIN before \cap DOMAIN after
        equal == {p \in both : before[p].size = after[p].size
                                 /\ before[p].mtimeMs = after[p].mtimeMs}
    IN /\ added = DOMAIN after \ DOMAIN before
       /\ removed = DOMAIN before \ DOMAIN after
       /\ changed = both \ equal
       /\ added \cap removed = {} /\ added \cap changed = {} /\ removed \cap changed = {}
       /\ equal \cap (added \cup removed \cup changed) = {}
       /\ Len(output.result.added) = Cardinality(added)
       /\ Len(output.result.removed) = Cardinality(removed)
       /\ Len(output.result.changed) = Cardinality(changed)

\* a path whose size stayed and whose mtime moved was listed as changed, next
\* to a path that was added or removed
C16_Witness ==
  /\ output.fn = "diffSandboxStats"
  /\ \E p \in DOMAIN input.before \cap DOMAIN input.after :
       /\ input.before[p].size = input.after[p].size
       /\ input.before[p].mtimeMs # input.after[p].mtimeMs
       /\ p \in Range(output.result.changed)
  /\ Len(output.result.added) + Len(output.result.removed) > 0

\* C17: listDiffItems returns exactly one item for every pair (leaf id, path)
\* such that the path is in the persisted manifest of that leaf and its entry
\* classifies against the base entry as added, modified or deleted, with that
\* classification as the item's change; a path whose leaf entry equals the
\* base entry, and a pair that is in no persisted manifest, has no item.
C17_OneItemPerChange ==
  output.fn = "listDiffItems" =>
    LET items == output.items
        Of(leafId, p) == {i \in 1..Len(items) : items[i].leafId = leafId /\ items[i].path = p}
    IN /\ \A leafId \in DOMAIN leafFiles : \A p \in DOMAIN leafFiles[leafId] :
            LET change == describeChange(Get(baseManifest, p), leafFiles[leafId][p])
            IN IF change = "null" THEN Of(leafId, p) = {}
               ELSE /\ Cardinality(Of(leafId, p)) = 1
                    /\ \A i \in Of(leafId, p) : items[i].change = toChangeType(change)
       /\ \A leafId \in DOMAIN leafFiles : \A p \in DOMAIN leafFiles[leafId] :
            Get(baseManifest, p) = leafFiles[leafId][p] => Of(leafId, p) = {}
       /\ \A i \in 1..Len(items) :
            /\ items[i].leafId \in DOMAIN leafFiles
            /\ items[i].path \in DOMAIN leafFiles[items[i].leafId]

\* two leaves were listed, with a deleted path among the items and a path
\* whose leaf entry equals the base entry
C17_Witness ==
  /\ output.fn = "listDiffItems"
  /\ Cardinality(DOMAIN leafFiles) = 2
  /\ \E i \in 1..Len(output.items) : output.items[i].change = "deleted"
  /\ \E i \in 1..Len(output.items) : output.items[i].change = "added"
  /\ \E leafId \in DOMAIN leafFiles : \E p \in DOMAIN leafFiles[leafId] :
       /\ p \in DOMAIN baseManifest
       /\ baseManifest[p] = leafFiles[leafId][p]
       /\ baseManifest[p].exists

----------------------------------------------------------------------------
(* Properties of applyManifest (ApplySpec) *)

\* the entries of a manifest that need a blob the store does not hold
Unreadable(manifest, store) ==
  {p \in DOMAIN manifest :
     /\ manifest[p].exists /\ "hash" \in DOMAIN manifest[p]
     /\ manifest[p].hash \notin DOMAIN store}

----------------------------------------------------------------------------
(* Properties of the sandbox mirror (SandboxSpec) *)

\* the paths at which a root holds a file that the matcher does not ignore
NonIgnored(files, ignoreMatcher) ==
  {p \in SandboxPaths : files[p].exists /\ ~shouldIgnore(ignoreMatcher, p)}

\* C28: after SandboxState.initialize(), reused or fresh, the non-ignored
\* files of the sandbox (the marker file aside) are at the paths of the
\* non-ignored files of the real root, the stat map has exactly those paths
\* as keys, and a sandbox was reused only if its marker recorded the current
\* real root.
C28_MirrorAfterInitialize ==
  [][last'.op = "initialize"
     => LET m == sandboxState'.ignoreMatcher
            mirrored == NonIgnored(real'[sandboxState'.realRoot], m)
        IN /\ NonIgnored(sandbox', m) \ {META_FILENAME} = mirrored
           /\ DOMAIN stats' = mirrored
           /\ last'.reused => readSandboxMeta(sandbox) = sandboxState'.realRoot]_vars

\* C29: ensureSandboxFile(path) copies the file of the real root into the
\* sandbox only when the sandbox has no file at the path.  A file the
\* sandbox has is left as it is, whatever the real root holds; the real
\* roots, the other paths of the sandbox and the stat map are untouched; and
\* when neither root has the file the sandbox still has none.
C29_CopiesOnlyMissing ==
  [][last'.op = "ensureSandboxFile"
     => LET p == last'.path
            realFiles == real[sandboxState.realRoot]
        IN /\ real' = real
           /\ stats' = stats
           /\ \A q \in SandboxPaths \ {p} : sandbox'[q] = sandbox[q]
           /\ IF sandbox[p].exists THEN sandbox'[p] = sandbox[p]
              ELSE IF realFiles[p].exists
              THEN sandbox'[p].exists /\ sandbox'[p].content = realFiles[p].content
              ELSE ~sandbox'[p].exists]_vars

\* ensureSandboxFile was called on a path where the sandbox holds other
\* bytes than the real root, and they are still there
C29_Witness ==
  /\ last.op = "ensureSandboxFile"
  /\ sandbox[last.path].exists
  /\ real[sandboxState.realRoot][last.path].exists
  /\ sandbox[last.path].content # real[sandboxState.realRoot][last.path].content

\* C30: no ignored path is a key of the stat map.  After initialize, rescan
\* with setStats and updateFile in any order, every key of the map is a path
\* the matcher does not ignore, and updateFile on an ignored path leaves the
\* map without it.
C30_NoIgnoredKey ==
  [][sandboxState' # NoSandboxState
     => /\ \A p \in DOMAIN stats' : ~shouldIgnore(sandboxState'.ignoreMatcher, p)
        /\ (last'.op = "updateFile"
              /\ shouldIgnore(sandboxState'.ignoreMatcher, last'.path))
             => last'.path \notin DOMAIN stats']_vars

\* updateFile was called on an ignored path that is a file of the sandbox,
\* while the map holds another path
C30_Witness ==
  /\ last.op = "updateFile"
  /\ shouldIgnore(sandboxState.ignoreMatcher, last.path)
  /\ sandbox[last.path].exists
  /\ SourceFile \in DOMAIN stats

====
